---- MODULE Spec2Model ----
(***************************************************************************)
(* simple_ds: the open-addressing hash map of simple_map.h.                *)
(*                                                                         *)
(* Memory is a heap of blocks; a map handle is a pointer to a block (NULL  *)
(* when the map is absent).  A block is the hidden map_header followed by  *)
(* the slot array.  A key is a `const char *': a pointer into a pool of    *)
(* strings, NULL = 0.  Two pointers may address equal strings; the map     *)
(* compares keys with strcmp, never by address.                            *)
(*                                                                         *)
(* A double is kept as an exact fraction [num, den]; every double used     *)
(* below is a multiple of 1/4 and every capacity is far below 2^53, so     *)
(* capacity * factor is exact in IEEE arithmetic and the (size_t) cast is  *)
(* the floor of the quotient.                                              *)
(***************************************************************************)
EXTENDS Integers, Sequences, FiniteSets, TLC

(* ------------------------------ bounds --------------------------------- *)
\* Number of key pointers of KeyPool that callers pass.
NumKeys == 4
\* Number of key pointers used when two maps are in play.
NumPairKeys == 2
\* Number of distinct keys put into a fresh map that keeps its defaults.
NumFillKeys == 12
\* Operations that would take the capacity above MaxCap are not issued.
MaxCap == 40
\* Heap blocks that can be live at once.
MaxBlocks == 3
\* array_push is not issued on an array that holds MaxItems elements.
MaxItems == 4

(* ------------------------- program constants --------------------------- *)
MAP_INIT_CAPACITY == 16
MAP_LOAD_FACTOR == [num |-> 3, den |-> 4]
MAP_GROWTH_FACTOR_DEFAULT == [num |-> 2, den |-> 1]
MAP_MAGIC_NUMBER == 198566367
ARRAY_INIT_CAPACITY == 16
ARRAY_GROWTH_FACTOR_DEFAULT == [num |-> 2, den |-> 1]
\* 0xd1a1e159, as its four bytes (the number is above TLC's integers)
ARRAY_MAGIC_NUMBER == <<209, 161, 225, 89>>

NULL == 0

(* ------------------------------ strings -------------------------------- *)
\* The strings callers use as keys, as byte sequences:
\*   1 "Z"   2 "z"   3 "Z" (a second copy at another address)   4 ":"
\*   5 "a"   6 "ab"  7 "b"   8 "c"   9 "d"   10 "e"   11 "f"   12 "g"
\*   13 "h"  14 "i"  15 ";"  16 "j"  17 "k"  18 "l"
\* "Z", "z" and ":" share bucket 15 of 16 and bucket 31 of 32, so their
\* probe runs wrap from the last slot to slot 0; ";" has bucket 0 of 16 and
\* of 32, inside those runs.
KeyPool == << <<90>>, <<122>>, <<90>>, <<58>>, <<97>>, <<97, 98>>,
             <<98>>, <<99>>, <<100>>, <<101>>, <<102>>, <<103>>, <<104>>, <<105>>,
             <<59>>, <<106>>, <<107>>, <<108>> >>

KeyPtrs == 1..NumKeys
\* The values callers store with a key.  The map copies an element whole and
\* never reads its value, so two values (an old and a new one) are enough;
\* 0 is what memset leaves in a slot never written.
Values == {1, 2}
Strings == {KeyPool[p] : p \in KeyPtrs}
\* Every string of the pool.
PoolStrings == {KeyPool[p] : p \in DOMAIN KeyPool}

\* strcmp(a, b) == 0 on two non-NULL key pointers.
StrEq(a, b) == KeyPool[a] = KeyPool[b]

\* _hash_string: hash = 5381; for each byte c: hash = ((hash << 5) + hash) + c.
\* size_t arithmetic wraps at 2^64; for the strings of KeyPool (at most two
\* bytes) the sum stays below 2^23, so the wrap never happens.
RECURSIVE HashFrom(_, _, _)
HashFrom(str, i, hash) ==
    IF i > Len(str) THEN hash
    ELSE HashFrom(str, i + 1, (hash * 32 + hash) + str[i])

_hash_string(key) == HashFrom(KeyPool[key], 1, 5381)

\* (size_t)(capacity * factor)
Scale(capacity, factor) == (capacity * factor.num) \div factor.den

(* ------------------------------- heap ---------------------------------- *)
Blocks == 1..MaxBlocks
Freed == [freed |-> TRUE]
EmptySlot == [key |-> NULL, value |-> 0]

\* memset(arr, 0, cap * elem_size)
ZeroSlots(cap) == [i \in 0..(cap - 1) |-> EmptySlot]

\* malloc: the lowest free address (which address malloc returns has no
\* influence on what the map does).
Malloc(hp) == CHOOSE b \in Blocks : hp[b] = Freed /\ \A c \in Blocks : hp[c] = Freed => b <= c
CanMalloc(hp) == \E b \in Blocks : hp[b] = Freed

NewBlock(cap, lf, gf) ==
    [magic_number |-> MAP_MAGIC_NUMBER, load_factor |-> lf, growth_factor |-> gf,
     count |-> 0, capacity |-> cap, slots |-> ZeroSlots(cap)]

(* ------------------------------ probing -------------------------------- *)
\* What a lookup returns when it finds nothing (the C code returns NULL).
NotFound == -1
\* A loop that never exits: the call does not return.
Diverge == -2
\* What a block computation yields when one of its loops never exits.
HungBlock == [hang |-> TRUE]

\* The natural bucket of a key: _hash_string(key) % cap.
Bucket(key, cap) == _hash_string(key) % cap

\* `while (arr[h].key != NULL) h = (h + 1) % cap;' started at h: the first
\* empty slot at or after h.  n counts the slots already passed; after cap
\* occupied slots the loop is back where it started in the same state.
RECURSIVE FirstEmpty(_, _, _, _)
FirstEmpty(slots, cap, h, n) ==
    IF n = cap THEN Diverge
    ELSE IF slots[h].key = NULL THEN h
    ELSE FirstEmpty(slots, cap, (h + 1) % cap, n + 1)

\* GetLoop without the `h == start' test: it stops at an empty slot or at an
\* equal key only, and with neither it never exits.
RECURSIVE GetLoopUnguarded(_, _, _, _, _)
GetLoopUnguarded(slots, cap, key, h, n) ==
    IF n > cap THEN Diverge
    ELSE IF slots[h].key = NULL THEN NotFound
    ELSE IF StrEq(slots[h].key, key) THEN h
    ELSE GetLoopUnguarded(slots, cap, key, (h + 1) % cap, n + 1)

GetLoop_nostart(slots, cap, key, h, start) == GetLoopUnguarded(slots, cap, key, h, 0)

\* The loop of _map_get_impl from slot h: stops at an empty slot, at an equal
\* key, or when h is back at start.
RECURSIVE GetLoop(_, _, _, _, _)
GetLoop(slots, cap, key, h, start) ==
    IF slots[h].key = NULL THEN NotFound
    ELSE IF StrEq(slots[h].key, key) THEN h
    ELSE LET h2 == (h + 1) % cap
         IN  IF h2 = start THEN NotFound ELSE GetLoop(slots, cap, key, h2, start)

\* The number of slots the loop of _map_get_impl reads from slot h on, n
\* being the number read before h.
RECURSIVE GetProbes(_, _, _, _, _, _)
GetProbes(slots, cap, key, h, start, n) ==
    IF slots[h].key = NULL THEN n + 1
    ELSE IF StrEq(slots[h].key, key) THEN n + 1
    ELSE LET h2 == (h + 1) % cap
         IN  IF h2 = start THEN n + 1 ELSE GetProbes(slots, cap, key, h2, start, n + 1)

\* _map_get_impl: the index of the element found, or NotFound.
_map_get_impl(hp, tbl, key) ==
    IF tbl = NULL THEN NotFound
    ELSE LET hdr == hp[tbl]
             cap == hdr.capacity
             h == Bucket(key, cap)
         IN  GetLoop(hdr.slots, cap, key, h, h)

\* map_get(tbl, key): guards the NULL map and the NULL key.
map_get(hp, tbl, key) ==
    IF tbl # NULL /\ key # NULL THEN _map_get_impl(hp, tbl, key) ELSE NotFound

(* ------------------------------- resize -------------------------------- *)
\* ResizeLoop with the probe left out: every element goes to its bucket.
RECURSIVE ResizeLoop_noprobe(_, _, _, _)
ResizeLoop_noprobe(old, i, new, new_cap) ==
    IF i >= old.capacity THEN new
    ELSE IF old.slots[i].key = NULL THEN ResizeLoop_noprobe(old, i + 1, new, new_cap)
    ELSE ResizeLoop_noprobe(old, i + 1,
             [new EXCEPT !.slots[Bucket(old.slots[i].key, new_cap)] = old.slots[i],
                         !.count = @ + 1],
             new_cap)

\* ResizeLoop that takes the bucket of an element in the old capacity.
RECURSIVE ResizeLoop_oldcap(_, _, _, _)
ResizeLoop_oldcap(old, i, new, new_cap) ==
    IF i >= old.capacity THEN new
    ELSE IF old.slots[i].key = NULL THEN ResizeLoop_oldcap(old, i + 1, new, new_cap)
    ELSE LET ms == FirstEmpty(new.slots, new_cap, Bucket(old.slots[i].key, old.capacity), 0)
         IN  ResizeLoop_oldcap(old, i + 1,
                               [new EXCEPT !.slots[ms] = old.slots[i], !.count = @ + 1],
                               new_cap)

\* The body of MAP_RESIZE's for loop for old slot i and the slots after it:
\* a non-empty old slot is copied to the first empty slot at or after its
\* bucket in the new array, and the new count is incremented.
RECURSIVE ResizeLoop(_, _, _, _)
ResizeLoop(old, i, new, new_cap) ==
    IF new = HungBlock THEN HungBlock
    ELSE IF i >= old.capacity THEN new
    ELSE IF old.slots[i].key = NULL THEN ResizeLoop(old, i + 1, new, new_cap)
    ELSE LET ms == FirstEmpty(new.slots, new_cap, Bucket(old.slots[i].key, new_cap), 0)
         IN  IF ms = Diverge THEN HungBlock
             ELSE ResizeLoop(old, i + 1,
                             [new EXCEPT !.slots[ms] = old.slots[i], !.count = @ + 1],
                             new_cap)

\* MAP_RESIZE without `free(_ms_old_ptr)'.
MAP_RESIZE_leak(hp, tbl, new_cap) ==
    LET old == hp[tbl]
        nb == Malloc(hp)
        new == ResizeLoop(old, 0, NewBlock(new_cap, old.load_factor, old.growth_factor), new_cap)
    IN  IF new = HungBlock THEN [heap |-> hp, tbl |-> tbl, hang |-> TRUE]
        ELSE [heap |-> [hp EXCEPT ![nb] = new], tbl |-> nb, hang |-> FALSE]

\* MAP_RESIZE(tbl, new_cap) on an allocated map: malloc the new block while
\* the old one is live, copy the factors, re-insert, free the old block and
\* point the handle at the new one.
MAP_RESIZE(hp, tbl, new_cap) ==
    LET old == hp[tbl]
        nb == Malloc(hp)
        new == ResizeLoop(old, 0, NewBlock(new_cap, old.load_factor, old.growth_factor), new_cap)
    IN  IF new = HungBlock THEN [heap |-> hp, tbl |-> tbl, hang |-> TRUE]
        ELSE [heap |-> [hp EXCEPT ![nb] = new, ![tbl] = Freed], tbl |-> nb, hang |-> FALSE]

(* --------------------------------- put --------------------------------- *)
\* GrowCheck with > in place of >=.
GrowCheck_gt(hdr) == (hdr.count + 1) > Scale(hdr.capacity, hdr.load_factor)

\* GrowCheck that reads MAP_LOAD_FACTOR instead of the header's load_factor.
GrowCheck_default(hdr) == (hdr.count + 1) >= Scale(hdr.capacity, MAP_LOAD_FACTOR)

\* GrowCheck without the (size_t) cast: count + 1 is compared with the real
\* product capacity * load_factor.
GrowCheck_real(hdr) ==
    (hdr.count + 1) * hdr.load_factor.den >= hdr.capacity * hdr.load_factor.num

\* GrowCheck that grows only once count has passed the threshold.
GrowCheck_after(hdr) == hdr.count > Scale(hdr.capacity, hdr.load_factor)

\* The growth check of map_put_free:
\*   (count + 1) >= (size_t)(capacity * load_factor)
GrowCheck(hdr) == (hdr.count + 1) >= Scale(hdr.capacity, hdr.load_factor)

\* GrowCapacity that doubles the capacity whatever the growth factor is.
GrowCapacity_double(hdr) == 2 * hdr.capacity

\* GrowCapacity without the `capacity + 1' fallback.
GrowCapacity_nofallback(hdr) == Scale(hdr.capacity, hdr.growth_factor)

\* The capacity map_put_free grows to.
GrowCapacity(hdr) ==
    LET new_cap == Scale(hdr.capacity, hdr.growth_factor)
    IN  IF new_cap <= hdr.capacity THEN hdr.capacity + 1 ELSE new_cap

\* PutProbe comparing the key pointers instead of the strings.
RECURSIVE PutProbe_ptr(_, _, _, _, _)
PutProbe_ptr(slots, cap, key, h, n) ==
    IF n = cap THEN Diverge
    ELSE IF slots[h].key = NULL THEN h
    ELSE IF slots[h].key = key THEN h
    ELSE PutProbe_ptr(slots, cap, key, (h + 1) % cap, n + 1)

\* `while (tbl[h].key) { if (strcmp(tbl[h].key, item.key) == 0) break; h = (h + 1) % cap; }'
\* the first slot at or after h that is empty or holds an equal key.
RECURSIVE PutProbe(_, _, _, _, _)
PutProbe(slots, cap, key, h, n) ==
    IF n = cap THEN Diverge
    ELSE IF slots[h].key = NULL THEN h
    ELSE IF StrEq(slots[h].key, key) THEN h
    ELSE PutProbe(slots, cap, key, (h + 1) % cap, n + 1)

\* PutPlace that leaves an element with an equal key as it is.
PutPlace_keep(blk, item, h) ==
    IF blk.slots[h].key # NULL
    THEN blk
    ELSE [blk EXCEPT !.slots[h] = item, !.count = @ + 1]

\* PutPlace that counts a replacement as an insertion.
PutPlace_count(blk, item, h) ==
    [blk EXCEPT !.slots[h] = item, !.count = @ + 1]

\* The placement part of map_put_free on block blk: an equal key is replaced
\* (the whole element, key pointer included) and count stays; an empty slot
\* takes the item and count is incremented.
PutPlace(blk, item, h) ==
    IF blk.slots[h].key # NULL
    THEN [blk EXCEPT !.slots[h] = item]
    ELSE [blk EXCEPT !.slots[h] = item, !.count = @ + 1]

\* map_put_free that looks the key up first and applies the growth check
\* only when the key is not in the map.
map_put_free_lookupfirst(hp, tbl, item) ==
    LET b0 == Malloc(hp)
        hp1 == IF tbl = NULL
               THEN [hp EXCEPT ![b0] = NewBlock(MAP_INIT_CAPACITY, MAP_LOAD_FACTOR,
                                                 MAP_GROWTH_FACTOR_DEFAULT)]
               ELSE hp
        t1 == IF tbl = NULL THEN b0 ELSE tbl
        h0 == PutProbe(hp1[t1].slots, hp1[t1].capacity, item.key,
                       Bucket(item.key, hp1[t1].capacity), 0)
        grow == /\ ~(h0 # Diverge /\ hp1[t1].slots[h0].key # NULL)
                /\ GrowCheck(hp1[t1])
        rs == IF grow THEN MAP_RESIZE(hp1, t1, GrowCapacity(hp1[t1]))
              ELSE [heap |-> hp1, tbl |-> t1, hang |-> FALSE]
        blk == rs.heap[rs.tbl]
        h == PutProbe(blk.slots, blk.capacity, item.key, Bucket(item.key, blk.capacity), 0)
    IN  IF rs.hang \/ h = Diverge
        THEN [heap |-> hp, tbl |-> tbl, grow |-> grow, old |-> EmptySlot, hang |-> TRUE]
        ELSE [heap |-> [rs.heap EXCEPT ![rs.tbl] = PutPlace(blk, item, h)],
              tbl |-> rs.tbl, grow |-> grow, old |-> blk.slots[h], hang |-> FALSE]

\* map_put_free(tbl, item, free_func).  The result names the new heap and
\* handle, whether the growth check fired, the element handed to free_func
\* (EmptySlot when none is), and whether the call never returns.
map_put_free(hp, tbl, item) ==
    LET b0 == Malloc(hp)
        hp1 == IF tbl = NULL
               THEN [hp EXCEPT ![b0] = NewBlock(MAP_INIT_CAPACITY, MAP_LOAD_FACTOR,
                                                 MAP_GROWTH_FACTOR_DEFAULT)]
               ELSE hp
        t1 == IF tbl = NULL THEN b0 ELSE tbl
        grow == GrowCheck(hp1[t1])
        rs == IF grow THEN MAP_RESIZE(hp1, t1, GrowCapacity(hp1[t1]))
              ELSE [heap |-> hp1, tbl |-> t1, hang |-> FALSE]
        blk == rs.heap[rs.tbl]
        h == PutProbe(blk.slots, blk.capacity, item.key, Bucket(item.key, blk.capacity), 0)
    IN  IF rs.hang \/ h = Diverge
        THEN [heap |-> hp, tbl |-> tbl, grow |-> grow, old |-> EmptySlot, hang |-> TRUE]
        ELSE [heap |-> [rs.heap EXCEPT ![rs.tbl] = PutPlace(blk, item, h)],
              tbl |-> rs.tbl, grow |-> grow, old |-> blk.slots[h], hang |-> FALSE]

(* ------------------- calls with undefined behaviour -------------------- *)
\* A load or store through NULL is undefined behaviour.  Where the access
\* faults the call never returns: the caller sees Fault.  Where it does not
\* fault the code runs on with whatever is at address 0: the caller sees
\* Undefined, and the model follows the program no further.
Fault == -3
Undefined == -4
\* The handle MAP_RESIZE computes from a NULL malloc result (NULL plus the
\* header size): neither NULL nor the address of a block.
Wild == MaxBlocks + 1
\* The strings a read at address 0 may yield where it does not fault: the
\* empty string (a zeroed page) or some bytes that spell a key.
NullPage == {<< >>, KeyPool[1]}

\* The part of map_put_free before item.key is read: the first allocation
\* of an absent map, the growth check and the resize.
PutPrepare(hp, tbl) ==
    LET b0 == Malloc(hp)
        hp1 == IF tbl = NULL
               THEN [hp EXCEPT ![b0] = NewBlock(MAP_INIT_CAPACITY, MAP_LOAD_FACTOR,
                                                 MAP_GROWTH_FACTOR_DEFAULT)]
               ELSE hp
        t1 == IF tbl = NULL THEN b0 ELSE tbl
    IN  IF GrowCheck(hp1[t1]) THEN MAP_RESIZE(hp1, t1, GrowCapacity(hp1[t1]))
        ELSE [heap |-> hp1, tbl |-> t1, hang |-> FALSE]

\* The probe loop of map_put_free when item.key is NULL and the bytes at
\* address 0 read as str: strcmp(tbl[h].key, NULL) compares with str.
RECURSIVE PutProbeStr(_, _, _, _, _)
PutProbeStr(slots, cap, str, h, n) ==
    IF n = cap THEN Diverge
    ELSE IF slots[h].key = NULL THEN h
    ELSE IF KeyPool[slots[h].key] = str THEN h
    ELSE PutProbeStr(slots, cap, str, (h + 1) % cap, n + 1)

\* map_put_free(tbl, item, free_func) with item.key = NULL: the outcomes.
\* Nothing tests the key.  The map is allocated or grown as for any put;
\* then _hash_string reads *str with str = NULL.  Either the read faults,
\* with the caller's handle not yet written back, or it yields a string
\* str: the probe stops at an empty slot or at a key equal to str, the
\* element there (if any) goes to free_func, the item is stored, and as the
\* slot now has a NULL key `if (!tbl[h].key)' stores it again and
\* increments count.
map_put_free_nullkey(hp, tbl, item) ==
    LET p == PutPrepare(hp, tbl)
        blk == p.heap[p.tbl]
        Slot(str) == PutProbeStr(blk.slots, blk.capacity, str,
                                 HashFrom(str, 1, 5381) % blk.capacity, 0)
    IN  {[heap |-> p.heap, tbl |-> tbl, ret |-> Fault, old |-> EmptySlot]}
        \cup {[heap |-> [p.heap EXCEPT ![p.tbl] =
                            [blk EXCEPT !.slots[Slot(str)] = item, !.count = @ + 1]],
                tbl |-> p.tbl, ret |-> Undefined, old |-> blk.slots[Slot(str)]] :
               str \in {x \in NullPage : Slot(x) # Diverge}}

\* MAP_RESIZE(tbl, new_cap) on an allocated map when malloc returns NULL:
\* the outcomes.  Nothing tests the result; the first store,
\* `_ms_new_hdr->capacity = _ms_new_cap', goes through NULL.  Either it
\* faults, with the old block and the handle untouched, or the stores land
\* at address 0: the elements are copied there, the old block is freed and
\* the handle is set to the wild pointer.
ResizeNoMem(hp, tbl, new_cap) ==
    {[heap |-> hp, tbl |-> tbl, ret |-> Fault],
     [heap |-> [hp EXCEPT ![tbl] = Freed], tbl |-> Wild, ret |-> Undefined]}

(* ------------------------------- delete -------------------------------- *)
\* DeleteProbe without the strcmp: the first non-empty slot counts as found.
DeleteProbe_nocmp(slots, cap, key, idx, n) ==
    IF slots[idx].key = NULL THEN NotFound ELSE idx

\* The search loop of map_delete_free from slot idx: NotFound at an empty
\* slot, the index at an equal key.  The loop has no wrap-around exit.
RECURSIVE DeleteProbe(_, _, _, _, _)
DeleteProbe(slots, cap, key, idx, n) ==
    IF n = cap THEN Diverge
    ELSE IF slots[idx].key = NULL THEN NotFound
    ELSE IF StrEq(slots[idx].key, key) THEN idx
    ELSE DeleteProbe(slots, cap, key, (idx + 1) % cap, n + 1)

\* RehashLoop that forgets to increment count after re-inserting.
RECURSIVE RehashLoop_nocount(_, _, _)
RehashLoop_nocount(blk, j, n) ==
    LET cap == blk.capacity
    IN  IF blk.slots[j].key = NULL THEN blk
        ELSE IF n > 2 * cap THEN HungBlock
        ELSE LET temp == blk.slots[j]
                 cleared == [blk EXCEPT !.slots[j].key = NULL, !.count = @ - 1]
                 new_idx == FirstEmpty(cleared.slots, cap, Bucket(temp.key, cap), 0)
                 placed == [cleared EXCEPT !.slots[new_idx] = temp]
             IN  RehashLoop_nocount(placed, (j + 1) % cap, n + 1)

\* RehashLoop that re-inserts only the element right after the deleted one.
RehashLoop_one(blk, j, n) ==
    LET cap == blk.capacity
    IN  IF blk.slots[j].key = NULL THEN blk
        ELSE LET temp == blk.slots[j]
                 cleared == [blk EXCEPT !.slots[j].key = NULL, !.count = @ - 1]
                 new_idx == FirstEmpty(cleared.slots, cap, Bucket(temp.key, cap), 0)
             IN  [cleared EXCEPT !.slots[new_idx] = temp, !.count = @ + 1]

\* RehashLoop that copies an element to its new slot without clearing the
\* slot it came from.
RECURSIVE RehashLoop_noclear(_, _, _)
RehashLoop_noclear(blk, j, n) ==
    LET cap == blk.capacity
    IN  IF blk.slots[j].key = NULL THEN blk
        ELSE IF n > 2 * cap THEN HungBlock
        ELSE LET temp == blk.slots[j]
                 new_idx == FirstEmpty(blk.slots, cap, Bucket(temp.key, cap), 0)
             IN  IF new_idx = Diverge THEN HungBlock
                 ELSE RehashLoop_noclear([blk EXCEPT !.slots[new_idx] = temp],
                                         (j + 1) % cap, n + 1)

\* RehashLoop that ends the walk at the first element that is re-inserted
\* into the slot it came from.
RECURSIVE RehashLoop_untilfixed(_, _, _)
RehashLoop_untilfixed(blk, j, n) ==
    LET cap == blk.capacity
    IN  IF blk.slots[j].key = NULL THEN blk
        ELSE LET temp == blk.slots[j]
                 cleared == [blk EXCEPT !.slots[j].key = NULL, !.count = @ - 1]
                 new_idx == FirstEmpty(cleared.slots, cap, Bucket(temp.key, cap), 0)
                 placed == [cleared EXCEPT !.slots[new_idx] = temp, !.count = @ + 1]
             IN  IF new_idx = j THEN placed
                 ELSE RehashLoop_untilfixed(placed, (j + 1) % cap, n + 1)

\* One pass of the repair loop of map_delete_impl_idx at slot j: the element
\* is taken out (key cleared, count decremented), re-inserted at the first
\* empty slot at or after its bucket (count incremented), and the walk moves
\* to j + 1; the walk ends at the first empty slot.  n counts the passes.
RECURSIVE RehashLoop(_, _, _)
RehashLoop(blk, j, n) ==
    LET cap == blk.capacity
    IN  IF blk.slots[j].key = NULL THEN blk
        ELSE IF n > 2 * cap THEN HungBlock
        ELSE LET temp == blk.slots[j]
                 cleared == [blk EXCEPT !.slots[j].key = NULL, !.count = @ - 1]
                 new_idx == FirstEmpty(cleared.slots, cap, Bucket(temp.key, cap), 0)
                 placed == [cleared EXCEPT !.slots[new_idx] = temp, !.count = @ + 1]
             IN  RehashLoop(placed, (j + 1) % cap, n + 1)

\* map_delete_impl_idx without the repair walk.
map_delete_impl_idx_norepair(blk, idx) ==
    [blk EXCEPT !.slots[idx].key = NULL, !.count = @ - 1]

\* map_delete_impl_idx that clears the slot without decrementing count.
map_delete_impl_idx_nodec(blk, idx) ==
    RehashLoop([blk EXCEPT !.slots[idx].key = NULL], (idx + 1) % blk.capacity, 0)

\* map_delete_impl_idx: clear the key of slot idx (the rest of the element
\* stays as it was), decrement count, repair the run that follows.
map_delete_impl_idx(blk, idx) ==
    LET cleared == [blk EXCEPT !.slots[idx].key = NULL, !.count = @ - 1]
    IN  RehashLoop(cleared, (idx + 1) % blk.capacity, 0)

\* map_delete_free(tbl, key, free_func): the block is updated in place and
\* the handle is written back unchanged.
map_delete_free(hp, tbl, key) ==
    IF tbl = NULL
    THEN [heap |-> hp, tbl |-> tbl, old |-> EmptySlot, hang |-> FALSE]
    ELSE LET blk == hp[tbl]
             idx == DeleteProbe(blk.slots, blk.capacity, key, Bucket(key, blk.capacity), 0)
             after == IF idx >= 0 THEN map_delete_impl_idx(blk, idx) ELSE blk
         IN  IF idx = Diverge \/ after = HungBlock
             THEN [heap |-> hp, tbl |-> tbl, old |-> EmptySlot, hang |-> TRUE]
             ELSE IF idx = NotFound
             THEN [heap |-> hp, tbl |-> tbl, old |-> EmptySlot, hang |-> FALSE]
             ELSE [heap |-> [hp EXCEPT ![tbl] = after], tbl |-> tbl,
                   old |-> blk.slots[idx], hang |-> FALSE]

\* The search loop of map_delete_free when lookup_key is NULL and the bytes
\* at address 0 read as str.
RECURSIVE DeleteProbeStr(_, _, _, _, _)
DeleteProbeStr(slots, cap, str, idx, n) ==
    IF n = cap THEN Diverge
    ELSE IF slots[idx].key = NULL THEN NotFound
    ELSE IF KeyPool[slots[idx].key] = str THEN idx
    ELSE DeleteProbeStr(slots, cap, str, (idx + 1) % cap, n + 1)

\* map_delete_free(tbl, NULL, free_func) on an allocated map: the outcomes.
\* The macro admits a NULL lookup_key (its _Static_assert) but nothing tests
\* it: _hash_string reads *str with str = NULL.  Either the read faults, or
\* it yields a string str and the call deletes as for a key equal to str.
map_delete_free_nullkey(hp, tbl) ==
    LET blk == hp[tbl]
        Idx(str) == DeleteProbeStr(blk.slots, blk.capacity, str,
                                   HashFrom(str, 1, 5381) % blk.capacity, 0)
    IN  {[heap |-> hp, tbl |-> tbl, ret |-> Fault, old |-> EmptySlot]}
        \cup {[heap |-> hp, tbl |-> tbl, ret |-> Undefined, old |-> EmptySlot] :
               str \in {x \in NullPage : Idx(x) = NotFound}}
        \cup {[heap |-> [hp EXCEPT ![tbl] = map_delete_impl_idx(blk, Idx(str))],
                tbl |-> tbl, ret |-> Undefined, old |-> blk.slots[Idx(str)]] :
               str \in {x \in NullPage : Idx(x) >= 0}}

(* --------------------------- other operations ------------------------- *)
\* map_set_min_capacity that allocates an absent map with min_cap buckets,
\* without the MAP_INIT_CAPACITY floor.
map_set_min_capacity_nofloor(hp, tbl, min_cap) ==
    IF tbl = NULL
    THEN LET b0 == Malloc(hp)
         IN  [heap |-> [hp EXCEPT ![b0] = NewBlock(min_cap, MAP_LOAD_FACTOR,
                                                    MAP_GROWTH_FACTOR_DEFAULT)],
              tbl |-> b0, hang |-> FALSE]
    ELSE IF hp[tbl].capacity < min_cap THEN MAP_RESIZE(hp, tbl, min_cap)
    ELSE [heap |-> hp, tbl |-> tbl, hang |-> FALSE]

\* map_set_min_capacity that also shrinks: it resizes to min_cap whenever the
\* capacity differs from it and the elements fit.
map_set_min_capacity_shrink(hp, tbl, min_cap) ==
    IF tbl = NULL
    THEN LET m_cap == IF min_cap > MAP_INIT_CAPACITY THEN min_cap ELSE MAP_INIT_CAPACITY
             b0 == Malloc(hp)
         IN  [heap |-> [hp EXCEPT ![b0] = NewBlock(m_cap, MAP_LOAD_FACTOR,
                                                    MAP_GROWTH_FACTOR_DEFAULT)],
              tbl |-> b0, hang |-> FALSE]
    ELSE IF hp[tbl].capacity # min_cap /\ hp[tbl].count < min_cap
         THEN MAP_RESIZE(hp, tbl, min_cap)
    ELSE [heap |-> hp, tbl |-> tbl, hang |-> FALSE]

\* map_set_min_capacity(tbl, min_cap): an absent map is allocated with
\* max(MAP_INIT_CAPACITY, min_cap) buckets and the default factors; an
\* allocated one is resized when its capacity is below min_cap.
map_set_min_capacity(hp, tbl, min_cap) ==
    IF tbl = NULL
    THEN LET m_cap == IF min_cap > MAP_INIT_CAPACITY THEN min_cap ELSE MAP_INIT_CAPACITY
             b0 == Malloc(hp)
         IN  [heap |-> [hp EXCEPT ![b0] = NewBlock(m_cap, MAP_LOAD_FACTOR,
                                                    MAP_GROWTH_FACTOR_DEFAULT)],
              tbl |-> b0, hang |-> FALSE]
    ELSE IF hp[tbl].capacity < min_cap THEN MAP_RESIZE(hp, tbl, min_cap)
    ELSE [heap |-> hp, tbl |-> tbl, hang |-> FALSE]

\* map_set_growth_factor(tbl, factor)
map_set_growth_factor(hp, tbl, factor) ==
    IF tbl # NULL THEN [hp EXCEPT ![tbl].growth_factor = factor] ELSE hp

\* map_set_load_factor that allocates an absent map to hold the factor.
map_set_load_factor_alloc(hp, tbl, factor) ==
    IF tbl # NULL THEN [hp EXCEPT ![tbl].load_factor = factor]
    ELSE [hp EXCEPT ![Malloc(hp)] = NewBlock(MAP_INIT_CAPACITY, factor,
                                             MAP_GROWTH_FACTOR_DEFAULT)]

\* map_set_load_factor(tbl, factor)
map_set_load_factor(hp, tbl, factor) ==
    IF tbl # NULL THEN [hp EXCEPT ![tbl].load_factor = factor] ELSE hp

\* map_dup that hands back the original block.
map_dup_alias(hp, tbl) == [heap |-> hp, dup |-> tbl]

\* map_dup_from that gives the copy the default factors.
map_dup_from_defaults(hp, tbl, new_hdr) ==
    IF tbl = NULL \/ new_hdr = NULL THEN [heap |-> hp, dup |-> NULL]
    ELSE [heap |-> [hp EXCEPT ![new_hdr] =
                      [NewBlock(hp[tbl].capacity, MAP_LOAD_FACTOR, MAP_GROWTH_FACTOR_DEFAULT)
                          EXCEPT !.count = hp[tbl].count, !.slots = hp[tbl].slots]],
          dup |-> new_hdr]

\* map_dup that leaves magic_number of the copy as malloc returned it.
map_dup_from_nomagic(hp, tbl, new_hdr) ==
    IF tbl = NULL THEN [heap |-> hp, dup |-> NULL]
    ELSE IF new_hdr = NULL THEN [heap |-> hp, dup |-> NULL]
    ELSE [heap |-> [hp EXCEPT ![new_hdr] = [hp[tbl] EXCEPT !.magic_number = 0]],
          dup |-> new_hdr]

\* The body of map_dup(tbl) given what its malloc returned: new_hdr is the
\* new block, or NULL when the allocation failed.  A NULL map is not copied
\* (malloc is not called); a failed allocation leaves _dup NULL; otherwise
\* the new block gets the header fields and the whole slot array of the
\* original.
map_dup_from(hp, tbl, new_hdr) ==
    IF tbl = NULL THEN [heap |-> hp, dup |-> NULL]
    ELSE IF new_hdr = NULL THEN [heap |-> hp, dup |-> NULL]
    ELSE LET orig == hp[tbl]
         IN  [heap |-> [hp EXCEPT ![new_hdr] =
                          [magic_number |-> MAP_MAGIC_NUMBER,
                           load_factor |-> orig.load_factor,
                           growth_factor |-> orig.growth_factor,
                           count |-> orig.count,
                           capacity |-> orig.capacity,
                           slots |-> orig.slots]],
              dup |-> new_hdr]

\* map_dup(tbl) when its malloc succeeds.
map_dup(hp, tbl) == map_dup_from(hp, tbl, Malloc(hp))

\* map_free that frees the block and leaves the handle as it is.
map_free_dangling(hp, tbl) ==
    IF tbl # NULL THEN [heap |-> [hp EXCEPT ![tbl] = Freed], tbl |-> tbl]
    ELSE [heap |-> hp, tbl |-> tbl]

\* map_free(tbl): free the block and set the handle to NULL.
map_free(hp, tbl) ==
    IF tbl # NULL THEN [heap |-> [hp EXCEPT ![tbl] = Freed], tbl |-> NULL]
    ELSE [heap |-> hp, tbl |-> tbl]

\* map_get that inserts a zeroed element for a key it does not find.
map_get_call_insert(hp, tbl, key) ==
    LET ret == map_get(hp, tbl, key)
    IN  IF tbl = NULL \/ key = NULL \/ ret # NotFound THEN [heap |-> hp, ret |-> ret]
        ELSE LET blk == hp[tbl]
                 h == PutProbe(blk.slots, blk.capacity, key, Bucket(key, blk.capacity), 0)
             IN  [heap |-> [hp EXCEPT ![tbl] = PutPlace(blk, [key |-> key, value |-> 0], h)],
                  ret |-> h]

\* A call of map_get(tbl, key) as a step of the program: the memory after
\* the call and the value returned.  Neither the macro nor _map_get_impl
\* writes to the block or to tbl.
map_get_call(hp, tbl, key) == [heap |-> hp, ret |-> map_get(hp, tbl, key)]

\* FreeCalls without the test that an element was found.
FreeCalls_always(old) == <<old>>

\* The invocations of a non-NULL free_func by map_put_free or
\* map_delete_free, given the element old that the call found under the key
\* (EmptySlot when it found none): `if (free_func) free_func(elem)'.
FreeCalls(old) == IF old.key # NULL THEN <<old>> ELSE <<>>

\* map_count(tbl), map_capacity(tbl)
map_count(hp, tbl) == IF tbl # NULL THEN hp[tbl].count ELSE 0
map_capacity(hp, tbl) == IF tbl # NULL THEN hp[tbl].capacity ELSE 0
map_load_factor(hp, tbl) == IF tbl # NULL THEN hp[tbl].load_factor ELSE MAP_LOAD_FACTOR
map_growth_factor(hp, tbl) ==
    IF tbl # NULL THEN hp[tbl].growth_factor ELSE MAP_GROWTH_FACTOR_DEFAULT

(* ---------------------------- dynamic array ---------------------------- *)
\* simple_array.h.  An array block is the hidden array_header followed by
\* capacity elements; the elements here are ints, the items callers push
\* are Values.  What malloc leaves in an element nothing has written yet is
\* Indeterminate; no operation of the library reads such an element.
Indeterminate == -1

ArrayBlock(cap, gf, count, items) ==
    [magic_number |-> ARRAY_MAGIC_NUMBER, growth_factor |-> gf, count |-> count,
     capacity |-> cap, items |-> items]

\* ARRAY_RESIZE(arr, new_cap) on an allocated array: malloc a block of
\* new_cap elements, copy the growth factor, the count and the first count
\* elements, free the old block and point the handle at the new one.
ARRAY_RESIZE(hp, arr, new_cap) ==
    LET old == hp[arr]
        nb == Malloc(hp)
    IN  [heap |-> [hp EXCEPT ![nb] = ArrayBlock(new_cap, old.growth_factor, old.count,
                        [i \in 0..(new_cap - 1) |->
                            IF i < old.count THEN old.items[i] ELSE Indeterminate]),
                             ![arr] = Freed],
         arr |-> nb]

\* `_a[_hdr->count++] = (item);'
ArrayStore(blk, item) ==
    [blk EXCEPT !.items[blk.count] = item, !.count = @ + 1]

\* ArrayGrowCheck that lets the array fill one element past its capacity.
ArrayGrowCheck_late(hdr) == hdr.count > hdr.capacity

\* The growth check of array_push: `_hdr->count >= _hdr->capacity'
ArrayGrowCheck(hdr) == hdr.count >= hdr.capacity

\* array_push(arr, item): an absent array is allocated with
\* ARRAY_INIT_CAPACITY zeroed elements; a full array is resized to
\* (size_t)(capacity * growth_factor), or capacity + 1 when that is not
\* larger; the item is stored at index count and count is incremented.
array_push(hp, arr, item) ==
    LET b0 == Malloc(hp)
        hp1 == IF arr = NULL
               THEN [hp EXCEPT ![b0] = ArrayBlock(ARRAY_INIT_CAPACITY,
                                         ARRAY_GROWTH_FACTOR_DEFAULT, 0,
                                         [i \in 0..(ARRAY_INIT_CAPACITY - 1) |-> 0])]
               ELSE hp
        a1 == IF arr = NULL THEN b0 ELSE arr
        hdr == hp1[a1]
        scaled == Scale(hdr.capacity, hdr.growth_factor)
        new_cap == IF scaled <= hdr.capacity THEN hdr.capacity + 1 ELSE scaled
        rs == IF ArrayGrowCheck(hdr) THEN ARRAY_RESIZE(hp1, a1, new_cap)
              ELSE [heap |-> hp1, arr |-> a1]
    IN  [heap |-> [rs.heap EXCEPT ![rs.arr] = ArrayStore(rs.heap[rs.arr], item)],
         arr |-> rs.arr]

\* array_pop that returns the last element and leaves count as it is.
array_pop_peek(hp, arr) ==
    IF arr # NULL /\ hp[arr].count > 0
    THEN [heap |-> hp, ret |-> hp[arr].items[hp[arr].count - 1]]
    ELSE [heap |-> hp, ret |-> 0]

\* array_pop(arr): the value is zeroed, and for an allocated array with
\* count > 0 it is `_a[--_hdr->count]'.
array_pop(hp, arr) ==
    IF arr # NULL /\ hp[arr].count > 0
    THEN [heap |-> [hp EXCEPT ![arr].count = @ - 1],
          ret |-> hp[arr].items[hp[arr].count - 1]]
    ELSE [heap |-> hp, ret |-> 0]

\* array_delete that moves the elements after index without the test
\* `_idx < _hdr->count' against the live elements: it tests the capacity.
array_delete_anyidx(hp, arr, index) ==
    IF arr # NULL /\ index < hp[arr].capacity /\ hp[arr].count > 0
    THEN LET blk == hp[arr]
         IN  [hp EXCEPT ![arr] =
                 [blk EXCEPT !.items = [i \in 0..(blk.capacity - 1) |->
                                          IF index <= i /\ i < blk.count - 1
                                          THEN blk.items[i + 1] ELSE blk.items[i]],
                             !.count = @ - 1]]
    ELSE hp

\* array_delete(arr, index): for an allocated array and index < count,
\* memmove the count - index - 1 elements after index down by one and
\* decrement count; otherwise nothing.
array_delete(hp, arr, index) ==
    IF arr # NULL /\ index < hp[arr].count
    THEN LET blk == hp[arr]
         IN  [hp EXCEPT ![arr] =
                 [blk EXCEPT !.items = [i \in 0..(blk.capacity - 1) |->
                                          IF index <= i /\ i < blk.count - 1
                                          THEN blk.items[i + 1] ELSE blk.items[i]],
                             !.count = @ - 1]]
    ELSE hp

\* array_set_min_capacity(arr, min_cap): an absent array is allocated with
\* min_cap zeroed elements (no floor) and the default growth factor; an
\* allocated one is resized when its capacity is below min_cap.
array_set_min_capacity(hp, arr, min_cap) ==
    IF arr = NULL
    THEN LET b0 == Malloc(hp)
         IN  [heap |-> [hp EXCEPT ![b0] = ArrayBlock(min_cap, ARRAY_GROWTH_FACTOR_DEFAULT, 0,
                                              [i \in 0..(min_cap - 1) |-> 0])],
              arr |-> b0]
    ELSE IF hp[arr].capacity < min_cap THEN ARRAY_RESIZE(hp, arr, min_cap)
    ELSE [heap |-> hp, arr |-> arr]

\* array_set_growth_factor(arr, factor)
array_set_growth_factor(hp, arr, factor) ==
    IF arr # NULL THEN [hp EXCEPT ![arr].growth_factor = factor] ELSE hp

\* array_free(arr): array_free_free with a NULL free_func.
array_free(hp, arr) ==
    IF arr # NULL THEN [heap |-> [hp EXCEPT ![arr] = Freed], arr |-> NULL]
    ELSE [heap |-> hp, arr |-> arr]

\* array_dup_min_capacity(arr, min_cap) with malloc succeeding: a block of
\* the original's capacity (min_cap is read into _m_min_cap and not used
\* again) that takes the original's count and growth factor and its first
\* count elements; NULL for an absent array.
array_dup_min_capacity(hp, arr, min_cap) ==
    IF arr = NULL THEN [heap |-> hp, dup |-> NULL]
    ELSE LET orig == hp[arr]
             nb == Malloc(hp)
         IN  [heap |-> [hp EXCEPT ![nb] =
                          ArrayBlock(orig.capacity, orig.growth_factor, orig.count,
                              [i \in 0..(orig.capacity - 1) |->
                                  IF i < orig.count THEN orig.items[i] ELSE Indeterminate])],
              dup |-> nb]

\* array_count(arr), array_capacity(arr)
array_count(hp, arr) == IF arr # NULL THEN hp[arr].count ELSE 0
array_capacity(hp, arr) == IF arr # NULL THEN hp[arr].capacity ELSE 0

(* ------------------------------- state --------------------------------- *)
\* heap    the blocks of memory: a map block, or Freed
\* map     the caller's handle variables (`map' and `dup_map' of the Readme
\*         example, or `points' of its array example), each NULL or the
\*         address of a block
\* shadow  history: per handle and key string, the element last put and not
\*         deleted since (EmptySlot when there is none); for an array
\*         handle, the items pushed and not removed since, in push order
\* hist    history kept by the specification SpecCount: the strings put and
\*         the number of deletes so far
\* out     what the caller observed of the last call, kept by the
\*         specification SpecCall: the operation, the handle it was given,
\*         the value it returned and the elements it handed to the cleanup
\*         callback, in order
VARIABLES heap, map, shadow, hist, out

vars == <<heap, map, shadow, hist, out>>

Handles == {"map", "dup_map"}

\* Arguments callers pass.  A map starts with MAP_LOAD_FACTOR and
\* MAP_GROWTH_FACTOR_DEFAULT; the setters are called with a load factor that
\* makes a few keys cross the threshold and with a growth factor that does
\* not grow the capacity by itself.
MinCaps == {0, 24}
LoadFactors == {[num |-> 1, den |-> 4]}
GrowthFactors == {[num |-> 1, den |-> 1]}
PairKeyPtrs == 1..NumPairKeys
\* Pointers to NumFillKeys pairwise different strings (3 repeats 1).
FillKeyPtrs == (1..(NumFillKeys + 1)) \ {3}

NoHist == [put |-> {}, del |-> 0]
NoOut == [op |-> "none", tbl |-> NULL, ret |-> NotFound, freed |-> <<>>]

Init ==
    /\ heap = [b \in Blocks |-> Freed]
    /\ map = [h \in Handles |-> NULL]
    /\ shadow = [h \in Handles |-> [s \in PoolStrings |-> EmptySlot]]
    /\ hist = NoHist
    /\ out = NoOut

\* map_put(map[h], (key, val))
MapPut(h, key, val) ==
    LET item == [key |-> key, value |-> val]
        r == map_put_free(heap, map[h], item)
        str == KeyPool[key]
    IN  /\ shadow' = [shadow EXCEPT ![h][str] = item]
        /\ CanMalloc(heap)
        /\ ~r.hang
        /\ r.heap[r.tbl].capacity <= MaxCap
        /\ heap' = r.heap
        /\ map' = [map EXCEPT ![h] = r.tbl]

\* map_delete(map[h], key)
MapDelete(h, key) ==
    LET r == map_delete_free(heap, map[h], key)
        str == KeyPool[key]
    IN  /\ shadow' = [shadow EXCEPT ![h][str] = EmptySlot]
        /\ ~r.hang
        /\ heap' = r.heap
        /\ map' = [map EXCEPT ![h] = r.tbl]

\* map_set_min_capacity(map[h], min_cap)
MapSetMinCapacity(h, min_cap) ==
    LET r == map_set_min_capacity(heap, map[h], min_cap)
    IN  /\ UNCHANGED shadow
        /\ CanMalloc(heap)
        /\ ~r.hang
        /\ min_cap <= MaxCap
        /\ heap' = r.heap
        /\ map' = [map EXCEPT ![h] = r.tbl]

\* map_set_load_factor(map[h], factor)
MapSetLoadFactor(h, factor) ==
    /\ heap' = map_set_load_factor(heap, map[h], factor)
    /\ UNCHANGED <<map, shadow>>

\* map_set_growth_factor(map[h], factor)
MapSetGrowthFactor(h, factor) ==
    /\ heap' = map_set_growth_factor(heap, map[h], factor)
    /\ UNCHANGED <<map, shadow>>

\* map_get(map[h], key)
MapGet(h, key) ==
    LET r == map_get_call(heap, map[h], key)
    IN  /\ heap' = r.heap
        /\ UNCHANGED <<map, shadow>>

\* map_free(map[h])
MapFree(h) ==
    LET r == map_free(heap, map[h])
    IN  /\ shadow' = [shadow EXCEPT ![h] = [s \in PoolStrings |-> EmptySlot]]
        /\ heap' = r.heap
        /\ map' = [map EXCEPT ![h] = r.tbl]

\* dup_map = map_dup(map), issued while dup_map is NULL
MapDup ==
    LET r == map_dup(heap, map["map"])
    IN  /\ map["dup_map"] = NULL
        /\ CanMalloc(heap)
        /\ heap' = r.heap
        /\ map' = [map EXCEPT !["dup_map"] = r.dup]
        /\ shadow' = [shadow EXCEPT !["dup_map"] = shadow["map"]]

\* dup_map = map_dup(map) whose malloc fails, issued while dup_map is NULL
MapDupNoMem ==
    LET r == map_dup_from(heap, map["map"], NULL)
    IN  /\ map["dup_map"] = NULL
        /\ heap' = r.heap
        /\ map' = [map EXCEPT !["dup_map"] = r.dup]
        /\ UNCHANGED shadow

\* map_put(map[h], (NULL, val))
MapPutNullKey(h, val) ==
    \E r \in map_put_free_nullkey(heap, map[h], [key |-> NULL, value |-> val]) :
        /\ UNCHANGED shadow
        /\ CanMalloc(heap)
        /\ heap' = r.heap
        /\ map' = [map EXCEPT ![h] = r.tbl]

\* map_delete(map[h], NULL) on an allocated map
MapDeleteNullKey(h) ==
    /\ map[h] # NULL
    /\ \E r \in map_delete_free_nullkey(heap, map[h]) :
           /\ UNCHANGED shadow
           /\ heap' = r.heap
           /\ map' = [map EXCEPT ![h] = r.tbl]

\* map_put(map[h], item) that has to grow an allocated map while malloc
\* returns NULL
MapPutNoMem(h) ==
    /\ map[h] # NULL
    /\ GrowCheck(heap[map[h]])
    /\ \E r \in ResizeNoMem(heap, map[h], GrowCapacity(heap[map[h]])) :
           /\ heap' = r.heap
           /\ map' = [map EXCEPT ![h] = r.tbl]
    /\ UNCHANGED shadow

\* map_set_min_capacity(map[h], min_cap) that has to resize an allocated
\* map while malloc returns NULL
MapSetMinCapacityNoMem(h, min_cap) ==
    /\ map[h] # NULL
    /\ heap[map[h]].capacity < min_cap
    /\ \E r \in ResizeNoMem(heap, map[h], min_cap) :
           /\ heap' = r.heap
           /\ map' = [map EXCEPT ![h] = r.tbl]
    /\ UNCHANGED shadow

(* --------------------------- specifications ---------------------------- *)
\* One map: every operation on the handle `map'.  A duplicate may be taken
\* at any time; it is read and freed before the next operation on `map'.
NoDup == map["dup_map"] = NULL

Put == \E key \in KeyPtrs, val \in Values :
           NoDup /\ MapPut("map", key, val) /\ UNCHANGED <<hist, out>>
Delete == \E key \in KeyPtrs : NoDup /\ MapDelete("map", key) /\ UNCHANGED <<hist, out>>
SetMinCapacity == \E min_cap \in MinCaps :
           NoDup /\ MapSetMinCapacity("map", min_cap) /\ UNCHANGED <<hist, out>>
SetLoadFactor == \E factor \in LoadFactors :
           NoDup /\ MapSetLoadFactor("map", factor) /\ UNCHANGED <<hist, out>>
SetGrowthFactor == \E factor \in GrowthFactors :
           NoDup /\ MapSetGrowthFactor("map", factor) /\ UNCHANGED <<hist, out>>
Free == NoDup /\ MapFree("map") /\ UNCHANGED <<hist, out>>
Dup == map["map"] # NULL /\ MapDup /\ UNCHANGED <<hist, out>>
FreeDup == ~NoDup /\ MapFree("dup_map") /\ UNCHANGED <<hist, out>>

Next == Put \/ Delete \/ SetMinCapacity \/ SetLoadFactor \/ SetGrowthFactor \/ Free
        \/ Dup \/ FreeDup

Spec == Init /\ [][Next]_vars

\* Two maps: `dup_map = map_dup(map)' and then puts, deletes, minimum
\* capacities and frees on either handle, with fewer keys.
PairHandle(h) == h = "dup_map" => map["dup_map"] # NULL

PairPut == \E h \in Handles, key \in PairKeyPtrs, val \in Values :
               PairHandle(h) /\ MapPut(h, key, val) /\ UNCHANGED <<hist, out>>
PairDelete == \E h \in Handles, key \in PairKeyPtrs :
               PairHandle(h) /\ MapDelete(h, key) /\ UNCHANGED <<hist, out>>
PairSetMinCapacity == \E h \in Handles, min_cap \in MinCaps :
               PairHandle(h) /\ MapSetMinCapacity(h, min_cap) /\ UNCHANGED <<hist, out>>
PairFree == \E h \in Handles : PairHandle(h) /\ MapFree(h) /\ UNCHANGED <<hist, out>>
PairDup == MapDup /\ UNCHANGED <<hist, out>>

NextDup == PairPut \/ PairDelete \/ PairSetMinCapacity \/ PairFree \/ PairDup

SpecDup == Init /\ [][NextDup]_vars

\* One map, counted: puts of keys whose string no earlier put had, deletes of
\* keys that are present, and the calls that resize or set up growth in
\* between; hist records the strings put and the number of deletes.
CountPut == \E key \in KeyPtrs, val \in Values :
               /\ KeyPool[key] \notin hist.put
               /\ MapPut("map", key, val)
               /\ hist' = [hist EXCEPT !.put = @ \cup {KeyPool[key]}]
               /\ UNCHANGED out
CountDelete == \E key \in KeyPtrs :
               /\ shadow["map"][KeyPool[key]].key # NULL
               /\ MapDelete("map", key)
               /\ hist' = [hist EXCEPT !.del = @ + 1]
               /\ UNCHANGED out
CountSetMinCapacity == \E min_cap \in MinCaps :
               MapSetMinCapacity("map", min_cap) /\ UNCHANGED <<hist, out>>
CountSetLoadFactor == \E factor \in LoadFactors :
               MapSetLoadFactor("map", factor) /\ UNCHANGED <<hist, out>>
CountSetGrowthFactor == \E factor \in GrowthFactors :
               MapSetGrowthFactor("map", factor) /\ UNCHANGED <<hist, out>>

NextCount == CountPut \/ CountDelete \/ CountSetMinCapacity \/ CountSetLoadFactor
             \/ CountSetGrowthFactor

SpecCount == Init /\ [][NextCount]_vars

\* One map, observed: every call on the handle `map' with what the caller
\* sees of it.  map_put_free and map_delete_free are given a cleanup callback
\* that is not NULL; map_get is also called with a NULL key.  A duplicate is
\* taken with a malloc that succeeds or fails, and freed before the next
\* call on `map'.
Observed(op, ret, freed) == [op |-> op, tbl |-> map["map"], ret |-> ret, freed |-> freed]

ObsPut(key, val) ==
    /\ MapPut("map", key, val)
    /\ out' = Observed("map_put", NotFound,
                       FreeCalls(map_put_free(heap, map["map"],
                                              [key |-> key, value |-> val]).old))
    /\ UNCHANGED hist
ObsDelete(key) ==
    /\ MapDelete("map", key)
    /\ out' = Observed("map_delete", NotFound,
                       FreeCalls(map_delete_free(heap, map["map"], key).old))
    /\ UNCHANGED hist
ObsGet(key) ==
    /\ MapGet("map", key)
    /\ out' = Observed("map_get", map_get_call(heap, map["map"], key).ret, <<>>)
    /\ UNCHANGED hist

ObsDup ==
    /\ MapDup
    /\ out' = Observed("map_dup", map_dup(heap, map["map"]).dup, <<>>)
    /\ UNCHANGED hist
ObsDupNoMem ==
    /\ MapDupNoMem
    /\ out' = Observed("map_dup", map_dup_from(heap, map["map"], NULL).dup, <<>>)
    /\ UNCHANGED hist

CallPut == \E key \in PairKeyPtrs, val \in Values : NoDup /\ ObsPut(key, val)
CallDelete == \E key \in PairKeyPtrs : NoDup /\ ObsDelete(key)
CallGet == \E key \in PairKeyPtrs \cup {NULL} : NoDup /\ ObsGet(key)
CallSetMinCapacity == \E min_cap \in MinCaps :
               /\ NoDup
               /\ MapSetMinCapacity("map", min_cap)
               /\ out' = Observed("map_set_min_capacity", NotFound, <<>>)
               /\ UNCHANGED hist
CallSetLoadFactor == \E factor \in LoadFactors :
               /\ NoDup
               /\ MapSetLoadFactor("map", factor)
               /\ out' = Observed("map_set_load_factor", NotFound, <<>>)
               /\ UNCHANGED hist
CallSetGrowthFactor == \E factor \in GrowthFactors :
               /\ NoDup
               /\ MapSetGrowthFactor("map", factor)
               /\ out' = Observed("map_set_growth_factor", NotFound, <<>>)
               /\ UNCHANGED hist
CallFree ==    /\ NoDup
               /\ MapFree("map")
               /\ out' = Observed("map_free", NotFound, <<>>)
               /\ UNCHANGED hist
CallDup == ObsDup
CallDupNoMem == ObsDupNoMem
CallFreeDup == /\ ~NoDup
               /\ MapFree("dup_map")
               /\ out' = NoOut
               /\ UNCHANGED hist

NextCall == CallPut \/ CallDelete \/ CallGet \/ CallSetMinCapacity \/ CallSetLoadFactor
            \/ CallSetGrowthFactor \/ CallFree \/ CallDup \/ CallDupNoMem \/ CallFreeDup

SpecCall == Init /\ [][NextCall]_vars

\* One map filled from absent: map_put of keys not put before, nothing else,
\* so the map keeps MAP_INIT_CAPACITY, MAP_LOAD_FACTOR and
\* MAP_GROWTH_FACTOR_DEFAULT until a put grows it.
FillPut == \E key \in FillKeyPtrs :
               /\ shadow["map"][KeyPool[key]].key = NULL
               /\ MapPut("map", key, 1 + (key % 2))
               /\ hist' = [hist EXCEPT !.put = @ \cup {KeyPool[key]}]
               /\ UNCHANGED out

NextFill == FillPut

SpecFill == Init /\ [][NextFill]_vars

\* One map, misused: the calls of a correct caller and, among them, a put
\* of a NULL key and resizes whose malloc fails; out records what the
\* caller sees of these.  After undefined behaviour no further call is
\* followed.
Running == out.ret \notin {Fault, Undefined}
ObsPutNullKey(val) ==
    /\ MapPutNullKey("map", val)
    /\ \E r \in map_put_free_nullkey(heap, map["map"], [key |-> NULL, value |-> val]) :
           /\ heap' = r.heap /\ map'["map"] = r.tbl
           /\ out' = Observed("map_put", r.ret, FreeCalls(r.old))
    /\ UNCHANGED hist
ObsDeleteNullKey ==
    /\ MapDeleteNullKey("map")
    /\ \E r \in map_delete_free_nullkey(heap, map["map"]) :
           /\ heap' = r.heap
           /\ out' = Observed("map_delete", r.ret, FreeCalls(r.old))
    /\ UNCHANGED hist
ObsPutNoMem ==
    /\ MapPutNoMem("map")
    /\ out' = Observed("map_put", IF map'["map"] = Wild THEN Undefined ELSE Fault, <<>>)
    /\ UNCHANGED hist
ObsSetMinCapacityNoMem(min_cap) ==
    /\ MapSetMinCapacityNoMem("map", min_cap)
    /\ out' = Observed("map_set_min_capacity",
                       IF map'["map"] = Wild THEN Undefined ELSE Fault, <<>>)
    /\ UNCHANGED hist

MisPut == \E key \in KeyPtrs, val \in Values :
               Running /\ MapPut("map", key, val) /\ UNCHANGED <<hist, out>>
MisDelete == \E key \in KeyPtrs :
               Running /\ MapDelete("map", key) /\ UNCHANGED <<hist, out>>
MisSetMinCapacity == \E min_cap \in MinCaps :
               Running /\ MapSetMinCapacity("map", min_cap) /\ UNCHANGED <<hist, out>>
MisSetLoadFactor == \E factor \in LoadFactors :
               Running /\ MapSetLoadFactor("map", factor) /\ UNCHANGED <<hist, out>>
MisSetGrowthFactor == \E factor \in GrowthFactors :
               Running /\ MapSetGrowthFactor("map", factor) /\ UNCHANGED <<hist, out>>
MisPutNullKey == \E val \in Values : Running /\ ObsPutNullKey(val)
MisDeleteNullKey == Running /\ ObsDeleteNullKey
MisPutNoMem == Running /\ ObsPutNoMem
MisSetMinCapacityNoMem == \E min_cap \in MinCaps : Running /\ ObsSetMinCapacityNoMem(min_cap)

NextMisuse == MisPut \/ MisDelete \/ MisSetMinCapacity \/ MisSetLoadFactor
              \/ MisSetGrowthFactor \/ MisPutNullKey \/ MisPutNoMem
              \/ MisSetMinCapacityNoMem \/ MisDeleteNullKey

SpecMisuse == Init /\ [][NextMisuse]_vars

\* One dynamic array: every operation on the handle `points'; out records
\* the call, its argument (the item, index or capacity given, 0 when there
\* is none) and what array_pop returned.
ArrayHandles == {"points"}
ArrayMinCaps == {0, 3}
ArrayGrowthFactors == {[num |-> 1, den |-> 1]}
Indexes == 0..MaxItems

InitArray ==
    /\ heap = [b \in Blocks |-> Freed]
    /\ map = [h \in ArrayHandles |-> NULL]
    /\ shadow = [h \in ArrayHandles |-> << >>]
    /\ hist = NoHist
    /\ out = [op |-> "none", tbl |-> NULL, arg |-> 0, ret |-> 0, freed |-> << >>]

\* The sequence seq without its element at 0-based index i.
Without(seq, i) == [j \in 1..(Len(seq) - 1) |-> IF j <= i THEN seq[j] ELSE seq[j + 1]]

Called(op, arg, ret) ==
    [op |-> op, tbl |-> map["points"], arg |-> arg, ret |-> ret, freed |-> << >>]

\* array_push(points, item)
ArrayPush(item) ==
    LET r == array_push(heap, map["points"], item)
    IN  /\ shadow' = [shadow EXCEPT !["points"] = Append(@, item)]
        /\ array_count(heap, map["points"]) < MaxItems
        /\ heap' = r.heap
        /\ map' = [map EXCEPT !["points"] = r.arr]
        /\ out' = Called("array_push", item, 0)
        /\ UNCHANGED hist

\* array_pop(points)
ArrayPop ==
    LET r == array_pop(heap, map["points"])
    IN  /\ shadow' = [shadow EXCEPT !["points"] =
                         IF Len(@) > 0 THEN SubSeq(@, 1, Len(@) - 1) ELSE @]
        /\ heap' = r.heap
        /\ out' = Called("array_pop", 0, r.ret)
        /\ UNCHANGED <<map, hist>>

\* array_delete(points, index)
ArrayDelete(index) ==
    /\ shadow' = [shadow EXCEPT !["points"] =
                     IF index < Len(@) THEN Without(@, index) ELSE @]
    /\ heap' = array_delete(heap, map["points"], index)
    /\ out' = Called("array_delete", index, 0)
    /\ UNCHANGED <<map, hist>>

\* array_set_min_capacity(points, min_cap)
ArraySetMinCapacity(min_cap) ==
    LET r == array_set_min_capacity(heap, map["points"], min_cap)
    IN  /\ heap' = r.heap
        /\ map' = [map EXCEPT !["points"] = r.arr]
        /\ out' = Called("array_set_min_capacity", min_cap, 0)
        /\ UNCHANGED <<shadow, hist>>

\* array_set_growth_factor(points, factor)
ArraySetGrowthFactor(factor) ==
    /\ heap' = array_set_growth_factor(heap, map["points"], factor)
    /\ out' = Called("array_set_growth_factor", 0, 0)
    /\ UNCHANGED <<map, shadow, hist>>

\* array_free(points)
ArrayFree ==
    LET r == array_free(heap, map["points"])
    IN  /\ shadow' = [shadow EXCEPT !["points"] = << >>]
        /\ heap' = r.heap
        /\ map' = [map EXCEPT !["points"] = r.arr]
        /\ out' = Called("array_free", 0, 0)
        /\ UNCHANGED hist

Push == \E item \in Values : ArrayPush(item)
Pop == ArrayPop
DeleteAt == \E index \in Indexes : ArrayDelete(index)
ArrayMinCapacity == \E min_cap \in ArrayMinCaps : ArraySetMinCapacity(min_cap)
ArrayGrowthFactor == \E factor \in ArrayGrowthFactors : ArraySetGrowthFactor(factor)
FreeArray == ArrayFree

NextArray == Push \/ Pop \/ DeleteAt \/ ArrayMinCapacity \/ ArrayGrowthFactor \/ FreeArray

SpecArray == InitArray /\ [][NextArray]_vars

\* One map that grows: puts under a load factor that three keys cross and
\* under growth factors below, at and above 1.0; out records each call.
\* Every element is put with the value 1 (the map never reads a value).
SmallGrowthFactors == {[num |-> 1, den |-> 2], [num |-> 1, den |-> 1], [num |-> 3, den |-> 2]}

GrowPut == \E key \in KeyPtrs : ObsPut(key, 1)
GrowSetLoadFactor == \E factor \in LoadFactors :
               /\ MapSetLoadFactor("map", factor)
               /\ out' = Observed("map_set_load_factor", NotFound, <<>>)
               /\ UNCHANGED hist
GrowSetGrowthFactor == \E factor \in SmallGrowthFactors :
               /\ MapSetGrowthFactor("map", factor)
               /\ out' = Observed("map_set_growth_factor", NotFound, <<>>)
               /\ UNCHANGED hist

NextGrow == GrowPut \/ GrowSetLoadFactor \/ GrowSetGrowthFactor

SpecGrow == Init /\ [][NextGrow]_vars

\* One map that is resized: puts and deletes of two keys that share a
\* bucket in 16 and in 32 slots, the factor setters, and
\* map_set_min_capacity to a capacity in which the keys collide again; out
\* records each call.
CollidingCaps == {2 * MAP_INIT_CAPACITY}

ResizePut == \E key \in PairKeyPtrs, val \in Values : ObsPut(key, val)
ResizeDelete == \E key \in PairKeyPtrs : ObsDelete(key)
ObsSetMinCapacity(min_cap) ==
    /\ MapSetMinCapacity("map", min_cap)
    /\ out' = Observed("map_set_min_capacity", NotFound, <<>>)
    /\ UNCHANGED hist
ResizeSetMinCapacity == \E min_cap \in CollidingCaps : ObsSetMinCapacity(min_cap)
ResizeSetLoadFactor == \E factor \in LoadFactors :
               /\ MapSetLoadFactor("map", factor)
               /\ out' = Observed("map_set_load_factor", NotFound, <<>>)
               /\ UNCHANGED hist
ResizeSetGrowthFactor == \E factor \in GrowthFactors :
               /\ MapSetGrowthFactor("map", factor)
               /\ out' = Observed("map_set_growth_factor", NotFound, <<>>)
               /\ UNCHANGED hist
ResizeFree ==  /\ MapFree("map")
               /\ out' = Observed("map_free", NotFound, <<>>)
               /\ UNCHANGED hist

NextResize == ResizePut \/ ResizeDelete \/ ResizeSetMinCapacity \/ ResizeSetLoadFactor
              \/ ResizeSetGrowthFactor \/ ResizeFree

SpecResize == Init /\ [][NextResize]_vars

\* One dynamic array and a duplicate of it: pushes and pops on `points',
\* array_set_min_capacity, array_dup_min_capacity into the handle `copy'
\* while that is NULL, with a min_cap below and one above the capacity, and
\* array_free of the copy; out records each call.
DupHandles == {"points", "copy"}
DupMinCaps == {0, ARRAY_INIT_CAPACITY + MaxItems}

InitArrayDup ==
    /\ heap = [b \in Blocks |-> Freed]
    /\ map = [h \in DupHandles |-> NULL]
    /\ shadow = [h \in DupHandles |-> << >>]
    /\ hist = NoHist
    /\ out = [op |-> "none", tbl |-> NULL, arg |-> 0, ret |-> 0, freed |-> << >>]

\* copy = array_dup_min_capacity(points, min_cap)
ArrayDupMinCapacity(min_cap) ==
    LET r == array_dup_min_capacity(heap, map["points"], min_cap)
    IN  /\ map["copy"] = NULL
        /\ shadow' = [shadow EXCEPT !["copy"] = shadow["points"]]
        /\ heap' = r.heap
        /\ map' = [map EXCEPT !["copy"] = r.dup]
        /\ out' = Called("array_dup_min_capacity", min_cap, r.dup)
        /\ UNCHANGED hist

\* array_free(copy)
ArrayFreeCopy ==
    LET r == array_free(heap, map["copy"])
    IN  /\ map["copy"] # NULL
        /\ shadow' = [shadow EXCEPT !["copy"] = << >>]
        /\ heap' = r.heap
        /\ map' = [map EXCEPT !["copy"] = r.arr]
        /\ out' = Called("array_free", 0, 0)
        /\ UNCHANGED hist

DupMinCapacity == \E min_cap \in DupMinCaps : ArrayDupMinCapacity(min_cap)
FreeCopy == ArrayFreeCopy

NextArrayDup == Push \/ Pop \/ ArrayMinCapacity \/ DupMinCapacity \/ FreeCopy

SpecArrayDup == InitArrayDup /\ [][NextArrayDup]_vars

\* One handle through its whole life: puts and deletes of every key of
\* KeyPtrs, the load factor setter (with it a put of the third key grows the
\* map), map_set_min_capacity and map_free; out records each call.
HandlePut == \E key \in KeyPtrs : ObsPut(key, 1)
HandleDelete == \E key \in KeyPtrs : ObsDelete(key)

NextHandle == HandlePut \/ HandleDelete \/ ResizeSetMinCapacity \/ ResizeSetLoadFactor
              \/ ResizeFree

SpecHandle == Init /\ [][NextHandle]_vars

\* One map whose probe runs hold records of two buckets: "Z", "z" and ":"
\* (bucket 15 of 16, 31 of 32) and ";" (bucket 0), put and deleted in any
\* order, with map_set_min_capacity to 32 slots; out records each call.
\* A key is always put with the same value (the map never reads a value).
ShiftKeyPtrs == {1, 2, 4, 15}

ShiftPut == \E key \in ShiftKeyPtrs : ObsPut(key, 1 + (key % 2))
ShiftDelete == \E key \in ShiftKeyPtrs : ObsDelete(key)
ShiftSetMinCapacity == \E min_cap \in CollidingCaps : ObsSetMinCapacity(min_cap)

NextShift == ShiftPut \/ ShiftDelete \/ ShiftSetMinCapacity

SpecShift == Init /\ [][NextShift]_vars

\* One map whose resize is followed statement by statement.  Between calls
\* the caller puts and deletes the keys of ShiftKeyPtrs, frees the map, or
\* calls map_set_min_capacity(map, 32) on a smaller map, which enters
\* MAP_RESIZE.  While the resize runs, out holds its frame: pc, the source
\* line about to be executed, the macro's locals under their own names, and
\* reads, the blocks the statement just executed read from.  A block fresh
\* from malloc holds indeterminate bytes.
RawBlock ==
    [magic_number |-> Indeterminate, load_factor |-> Indeterminate,
     growth_factor |-> Indeterminate, count |-> Indeterminate,
     capacity |-> Indeterminate, slots |-> Indeterminate]

InResize == out.op = "MAP_RESIZE"

\* The statement at line pc is executed: the frame moves to line next.
Goto(pc, next, reads) ==
    /\ InResize
    /\ out.pc = pc
    /\ out' = [out EXCEPT !.pc = next, !.reads = reads]
    /\ UNCHANGED <<map, shadow, hist>>

\* The test of the for loop that leaves the loop after the first slot.
LoopDone_first(i, old_cap) == i >= 1

\* The test of the for loop, negated: !(_ms_i < _ms_old_cap).
LoopDone(i, old_cap) == i >= old_cap

StepsPut == ~InResize /\ ShiftPut
StepsDelete == ~InResize /\ ShiftDelete
StepsFree == /\ ~InResize
             /\ MapFree("map")
             /\ out' = Observed("map_free", NotFound, <<>>)
             /\ UNCHANGED hist

\* map_set_min_capacity up to the call of MAP_RESIZE (lines 304-320) and
\* MAP_RESIZE up to its malloc (lines 139-145).
StepsSetMinCapacity ==
    \E min_cap \in CollidingCaps :
        /\ ~InResize
        /\ map["map"] # NULL
        /\ heap[map["map"]].capacity < min_cap
        /\ CanMalloc(heap)
        /\ out' = [op |-> "MAP_RESIZE", pc |-> 146, _m_tbl |-> map["map"],
                   _ms_new_cap |-> min_cap, _ms_old_ptr |-> map["map"],
                   _ms_old_cap |-> heap[map["map"]].capacity,
                   _ms_new_hdr |-> NULL, _ms_i |-> 0,
                   reads |-> {map["map"]}, at_call |-> heap]
        /\ UNCHANGED <<heap, map, shadow, hist>>

\* _ms_new_hdr = malloc(...)
Line146 ==
    /\ InResize
    /\ out.pc = 146
    /\ heap' = [heap EXCEPT ![Malloc(heap)] = RawBlock]
    /\ out' = [out EXCEPT !.pc = 147, !._ms_new_hdr = Malloc(heap), !.reads = {}]
    /\ UNCHANGED <<map, shadow, hist>>

\* _ms_new_hdr->capacity = _ms_new_cap
Line147 ==
    /\ Goto(147, 148, {})
    /\ heap' = [heap EXCEPT ![out._ms_new_hdr].capacity = out._ms_new_cap]

\* _ms_new_hdr->count = 0
Line148 ==
    /\ Goto(148, 149, {})
    /\ heap' = [heap EXCEPT ![out._ms_new_hdr].count = 0]

\* _ms_new_hdr->load_factor = _ms_old_hdr->load_factor
Line149 ==
    /\ Goto(149, 150, {out._ms_old_ptr})
    /\ heap' = [heap EXCEPT ![out._ms_new_hdr].load_factor = heap[out._ms_old_ptr].load_factor]

\* _ms_new_hdr->growth_factor = _ms_old_hdr->growth_factor
Line150 ==
    /\ Goto(150, 151, {out._ms_old_ptr})
    /\ heap' = [heap EXCEPT ![out._ms_new_hdr].growth_factor =
                                heap[out._ms_old_ptr].growth_factor]

\* _ms_new_hdr->magic_number = MAP_MAGIC_NUMBER
Line151 ==
    /\ Goto(151, 153, {})
    /\ heap' = [heap EXCEPT ![out._ms_new_hdr].magic_number = MAP_MAGIC_NUMBER]

\* memset(_ms_new_arr, 0, ...); if (_ms_old_ptr)
Line153 ==
    /\ Goto(153, IF out._ms_old_ptr # NULL THEN 156 ELSE 169, {})
    /\ heap' = [heap EXCEPT ![out._ms_new_hdr].slots = ZeroSlots(out._ms_new_cap)]

\* for (_ms_i = 0; _ms_i < _ms_old_cap; _ms_i++): the test, and one pass of
\* the body (lines 157-165) when it holds.
Line156 ==
    /\ InResize
    /\ out.pc = 156
    /\ UNCHANGED <<map, shadow, hist>>
    /\ IF LoopDone(out._ms_i, out._ms_old_cap)
       THEN /\ out' = [out EXCEPT !.pc = 167, !.reads = {}]
            /\ UNCHANGED heap
       ELSE LET cur == heap[out._ms_old_ptr].slots[out._ms_i]
                new == heap[out._ms_new_hdr]
                ms == FirstEmpty(new.slots, out._ms_new_cap,
                                 Bucket(cur.key, out._ms_new_cap), 0)
            IN  IF cur.key = NULL
                THEN /\ out' = [out EXCEPT !._ms_i = @ + 1, !.reads = {out._ms_old_ptr}]
                     /\ UNCHANGED heap
                ELSE /\ ms # Diverge
                     /\ out' = [out EXCEPT !._ms_i = @ + 1,
                                           !.reads = {out._ms_old_ptr, out._ms_new_hdr}]
                     /\ heap' = [heap EXCEPT ![out._ms_new_hdr].slots[ms] = cur,
                                             ![out._ms_new_hdr].count = @ + 1]

\* free(_ms_old_ptr)
Line167 ==
    /\ Goto(167, 169, {})
    /\ heap' = [heap EXCEPT ![out._ms_old_ptr] = Freed]

\* (tbl) = _ms_new_arr, where tbl is map_set_min_capacity's local _m_tbl
Line169 ==
    /\ InResize
    /\ out.pc = 169
    /\ out' = [out EXCEPT !.pc = 324, !._m_tbl = out._ms_new_hdr, !.reads = {}]
    /\ UNCHANGED <<heap, map, shadow, hist>>

\* (tbl) = _m_tbl: map_set_min_capacity hands the handle back and returns.
Line324 ==
    /\ InResize
    /\ out.pc = 324
    /\ map' = [map EXCEPT !["map"] = out._m_tbl]
    /\ out' = [op |-> "map_set_min_capacity", tbl |-> out._ms_old_ptr,
               ret |-> NotFound, freed |-> <<>>]
    /\ UNCHANGED <<heap, shadow, hist>>

NextSteps == StepsPut \/ StepsDelete \/ StepsFree \/ StepsSetMinCapacity
             \/ Line146 \/ Line147 \/ Line148 \/ Line149 \/ Line150 \/ Line151
             \/ Line153 \/ Line156 \/ Line167 \/ Line169 \/ Line324

SpecSteps == Init /\ [][NextSteps]_vars

\* One map that is filled: the caller puts the keys of FullKeyPtrs (seventeen
\* different strings) in pointer order, each time the lowest one that is not
\* in the map, deletes and looks up a key that went in first and one that
\* goes in last, and calls the setters with factors the header documents and
\* with factors outside those ranges.  out records each call with its key; a
\* call whose probe loop never exits leaves ret = Diverge, and nothing runs
\* after it.  hist.stored holds the load factors the setter has stored.
FullKeyPtrs == (1..18) \ {3}
ProbeKeyPtrs == {1, 18}
WideLoadFactors == {[num |-> 99, den |-> 100], [num |-> 2, den |-> 1]}
FlatGrowthFactors == {[num |-> 1, den |-> 2]}

InitFull ==
    /\ heap = [b \in Blocks |-> Freed]
    /\ map = [h \in Handles |-> NULL]
    /\ shadow = [h \in Handles |-> [s \in PoolStrings |-> EmptySlot]]
    /\ hist = [stored |-> {}]
    /\ out = [op |-> "none", tbl |-> NULL, arg |-> NULL, ret |-> NotFound, freed |-> <<>>]

Returned == out.ret # Diverge

FullCalled(op, arg, ret) ==
    [op |-> op, tbl |-> map["map"], arg |-> arg, ret |-> ret, freed |-> <<>>]

\* The lowest key pointer of FullKeyPtrs whose string is not in the map.
IsNextAbsent(key) ==
    /\ shadow["map"][KeyPool[key]].key = NULL
    /\ \A k \in FullKeyPtrs : shadow["map"][KeyPool[k]].key = NULL => key <= k

\* map_put(map, (key, val))
FullPut == \E key \in FullKeyPtrs :
    /\ Returned
    /\ IsNextAbsent(key)
    /\ UNCHANGED hist
    /\ \/ /\ MapPut("map", key, 1 + (key % 2))
          /\ out' = FullCalled("map_put", key, NotFound)
       \/ /\ map_put_free(heap, map["map"], [key |-> key, value |-> 1 + (key % 2)]).hang
          /\ out' = FullCalled("map_put", key, Diverge)
          /\ UNCHANGED <<heap, map, shadow>>

\* map_delete(map, key)
FullDelete == \E key \in ProbeKeyPtrs :
    /\ Returned
    /\ UNCHANGED hist
    /\ \/ /\ MapDelete("map", key)
          /\ out' = FullCalled("map_delete", key, NotFound)
       \/ /\ map_delete_free(heap, map["map"], key).hang
          /\ out' = FullCalled("map_delete", key, Diverge)
          /\ UNCHANGED <<heap, map, shadow>>

\* map_get(map, key)
FullGet == \E key \in ProbeKeyPtrs :
    /\ Returned
    /\ MapGet("map", key)
    /\ out' = FullCalled("map_get", key, map_get_call(heap, map["map"], key).ret)
    /\ UNCHANGED hist

\* map_set_load_factor(map, factor)
FullSetLoadFactor == \E factor \in WideLoadFactors :
    /\ Returned
    /\ MapSetLoadFactor("map", factor)
    /\ out' = FullCalled("map_set_load_factor", NULL, NotFound)
    /\ hist' = IF map["map"] # NULL THEN [hist EXCEPT !.stored = @ \cup {factor}] ELSE hist

\* map_set_growth_factor(map, factor)
FullSetGrowthFactor == \E factor \in FlatGrowthFactors :
    /\ Returned
    /\ MapSetGrowthFactor("map", factor)
    /\ out' = FullCalled("map_set_growth_factor", NULL, NotFound)
    /\ UNCHANGED hist

\* map_set_min_capacity(map, min_cap)
FullSetMinCapacity == \E min_cap \in MinCaps :
    /\ Returned
    /\ MapSetMinCapacity("map", min_cap)
    /\ out' = FullCalled("map_set_min_capacity", NULL, NotFound)
    /\ UNCHANGED hist

NextFull == FullPut \/ FullDelete \/ FullGet \/ FullSetLoadFactor \/ FullSetGrowthFactor
            \/ FullSetMinCapacity

SpecFull == InitFull /\ [][NextFull]_vars

(* ------------------------------ properties ----------------------------- *)
LiveBlocks == {b \in Blocks : heap[b] # Freed}

\* What the caller reads through the pointer map_get returns: the element
\* found, or nothing (EmptySlot) when map_get returns NULL.
Elem(hp, tbl, key) ==
    LET i == map_get(hp, tbl, key)
    IN  IF i = NotFound THEN EmptySlot ELSE hp[tbl].slots[i]

Occupied(blk) == {i \in 0..(blk.capacity - 1) : blk.slots[i].key # NULL}

\* An empty slot that still carries the value of an element deleted from it.
Vacated(blk, i) == blk.slots[i].key = NULL /\ blk.slots[i].value # 0

\* The map has a capacity only a growing map_put produces (the others come
\* from the first allocation and from map_set_min_capacity).
Grown(blk) == blk.capacity \notin ({MAP_INIT_CAPACITY} \cup MinCaps)

\* C1: after every sequence of puts and deletes (growth included) map_get
\* returns, for every key, the element last put and not deleted since, and
\* finds nothing for a key never put or deleted.
C1_RoundTrip ==
    \A key \in KeyPtrs : Elem(heap, map["map"], key) = shadow["map"][KeyPool[key]]

\* A grown map from which a key was deleted after the growth, two keys left.
C1_Witness ==
    /\ map["map"] # NULL
    /\ Grown(heap[map["map"]])
    /\ heap[map["map"]].count = 2
    /\ \E i \in 0..(heap[map["map"]].capacity - 1) : Vacated(heap[map["map"]], i)
    /\ \E s \in Strings : shadow["map"][s].key = NULL

\* C2: right after map_put(map, record) returns, map_get(map, record.key)
\* points at a slot holding exactly that record.
C2_PutThenGet ==
    [][\A key \in KeyPtrs, val \in Values :
          MapPut("map", key, val) =>
              Elem(heap', map'["map"], key) = [key |-> key, value |-> val]]_vars

\* A put that allocated nothing but grew the map by one bucket.
C2_Witness ==
    /\ map["map"] # NULL
    /\ heap[map["map"]].capacity = MAP_INIT_CAPACITY + 1
    /\ heap[map["map"]].count = 3
    /\ \A s \in Strings : shadow["map"][s].value = 2

\* C3: after N puts of pairwise distinct keys and D deletes of keys present
\* at the time, map_count is N - D.
C3_CountIsPutsMinusDeletes ==
    map_count(heap, map["map"]) = Cardinality(hist.put) - hist.del

\* Three colliding keys put once each, then one delete: slot 1 was vacated
\* and the two keys left sit in slots 15 and 0.
C3_Witness ==
    /\ Cardinality(hist.put) = 3 /\ hist.del = 1
    /\ map["map"] # NULL
    /\ heap[map["map"]].capacity = MAP_INIT_CAPACITY
    /\ Occupied(heap[map["map"]]) = {15, 0}
    /\ Vacated(heap[map["map"]], 1)

\* C4: a put whose key is already present leaves map_count as it was and
\* makes map_get return the new element (so putting a record a second time
\* changes neither the count nor the lookup result).
C4_OverwriteKeepsCount ==
    [][\A key \in KeyPtrs, val \in Values :
          (MapPut("map", key, val) /\ shadow["map"][KeyPool[key]].key # NULL) =>
              /\ map_count(heap', map'["map"]) = map_count(heap, map["map"])
              /\ Elem(heap', map'["map"], key).value = val
              /\ (shadow["map"][KeyPool[key]] = [key |-> key, value |-> val] =>
                     Elem(heap', map'["map"], key) = Elem(heap, map["map"], key))]_vars

\* Every key was put again through its other pointer or with another value:
\* the slot of "Z" holds the second pointer to "Z", and the map grew on a put
\* that found three elements and left three.
C4_Witness ==
    /\ map["map"] # NULL
    /\ Grown(heap[map["map"]])
    /\ heap[map["map"]].count = 3
    /\ shadow["map"][KeyPool[1]] = [key |-> 3, value |-> 2]

\* C5: after map_delete removes a present key, every other key that was in
\* the map is found by map_get with the element it had, also when the keys
\* share a bucket and the run wraps from the last slot to slot 0.
C5_DeleteKeepsOthers ==
    [][\A key \in KeyPtrs :
          (MapDelete("map", key) /\ shadow["map"][KeyPool[key]].key # NULL) =>
              \A other \in KeyPtrs :
                  ~StrEq(other, key) =>
                      Elem(heap', map'["map"], other) = Elem(heap, map["map"], other)]_vars

\* "Z", "z", ":" shared bucket 15; one was deleted, slot 1 was vacated, and
\* the two left sit in slots 15 and 0 with different values.
C5_Witness ==
    /\ map["map"] # NULL
    /\ heap[map["map"]].capacity = MAP_INIT_CAPACITY
    /\ Occupied(heap[map["map"]]) = {15, 0}
    /\ Vacated(heap[map["map"]], 1)
    /\ heap[map["map"]].slots[15].value # heap[map["map"]].slots[0].value
    /\ heap[map["map"]].slots[0].value = heap[map["map"]].slots[1].value

\* The threshold of the specification: (count + 1) >= capacity * load_factor.
Crosses(hdr) ==
    (hdr.count + 1) * hdr.load_factor.den >= hdr.capacity * hdr.load_factor.num

Run(a, b, cap) ==
    IF a <= b THEN a..b ELSE (a..(cap - 1)) \cup (0..b)

ProbeInv(blk) ==
    \A p \in Occupied(blk) :
        \A q \in Run(Bucket(blk.slots[p].key, blk.capacity), p, blk.capacity) :
            blk.slots[q].key # NULL

\* C7: in every map (duplicates included), for every non-empty slot p with
\* key k, all slots from hash(k) mod capacity forward (wrapping) up to p are
\* non-empty.
C7_ProbingInvariant == \A b \in LiveBlocks : ProbeInv(heap[b])

\* A duplicate of a map of 32 buckets whose run wraps from slot 31 to slot 0
\* and in which a delete vacated slot 1.
C7_Witness ==
    /\ map["dup_map"] # NULL
    /\ heap[map["dup_map"]].capacity = 2 * MAP_INIT_CAPACITY
    /\ {31, 0} \subseteq Occupied(heap[map["dup_map"]])
    /\ Vacated(heap[map["dup_map"]], 1)

\* C8: no two non-empty slots of a map hold keys with equal strings.
C8_KeysUnique ==
    \A b \in LiveBlocks :
        \A i, j \in Occupied(heap[b]) :
            StrEq(heap[b].slots[i].key, heap[b].slots[j].key) => i = j

\* Both pointers to "Z" were put: the element of "Z" carries the second one,
\* next to the two other keys of its bucket.
C8_Witness ==
    /\ map["map"] # NULL
    /\ heap[map["map"]].count = 3
    /\ \E i \in Occupied(heap[map["map"]]) : heap[map["map"]].slots[i].key = 3
    /\ \E i \in Occupied(heap[map["map"]]) : heap[map["map"]].slots[i].key = 2

\* A put, delete, minimum capacity or free on handle h.
Mutates(h) ==
    \/ \E key \in PairKeyPtrs, val \in Values : MapPut(h, key, val)
    \/ \E key \in PairKeyPtrs : MapDelete(h, key)
    \/ \E min_cap \in MinCaps : MapSetMinCapacity(h, min_cap)
    \/ MapFree(h)

Other(h) == IF h = "map" THEN "dup_map" ELSE "map"

\* C9: once dup_map = map_dup(map) exists, an operation on one of the two
\* handles leaves the other handle and the count, capacity and slots of its
\* block as they were.
C9_DupIndependent ==
    [][\A h \in Handles :
          (map["map"] # NULL /\ map["dup_map"] # NULL /\ Mutates(h)) =>
              /\ map'[Other(h)] = map[Other(h)]
              /\ heap'[map[Other(h)]] = heap[map[Other(h)]]]_vars

\* Original and duplicate have been taken apart: the duplicate was resized
\* and lost a key, the original kept both.
C9_Witness ==
    /\ map["map"] # NULL /\ map["dup_map"] # NULL
    /\ heap[map["map"]].count = 2
    /\ heap[map["map"]].capacity = MAP_INIT_CAPACITY
    /\ heap[map["dup_map"]].count = 1
    /\ heap[map["dup_map"]].capacity = 24

\* C10: in every allocated map count <= number of non-empty slots <= capacity.
C10_CountBounds ==
    \A b \in LiveBlocks :
        /\ heap[b].count <= Cardinality(Occupied(heap[b]))
        /\ Cardinality(Occupied(heap[b])) <= heap[b].capacity

\* After a delete in the wrapped run of bucket 15, under load factor 0.25.
C10_Witness ==
    /\ map["map"] # NULL
    /\ heap[map["map"]].count = 2
    /\ Occupied(heap[map["map"]]) = {15, 0}
    /\ Vacated(heap[map["map"]], 1)
    /\ heap[map["map"]].load_factor = [num |-> 1, den |-> 4]

\* The blocks the handles point to.
Owned == {map[h] : h \in Handles} \ {NULL}

\* C11: a handle that is not NULL has capacity > 0 (also after
\* map_set_min_capacity(map, 0) and after growth with a factor that does not
\* raise the capacity by itself); a NULL handle reports count 0 and capacity
\* 0 and has no block behind it: the live blocks are the ones the handles
\* point to.
C11_CapacityPositive ==
    /\ \A h \in Handles :
           IF map[h] # NULL
           THEN map_capacity(heap, map[h]) > 0
           ELSE map_count(heap, map[h]) = 0 /\ map_capacity(heap, map[h]) = 0
    /\ LiveBlocks = Owned

\* A map that grew by one bucket through the `capacity + 1' fallback and
\* was emptied again, next to the absent handle dup_map.
C11_Witness ==
    /\ map["map"] # NULL /\ map["dup_map"] = NULL
    /\ heap[map["map"]].capacity = MAP_INIT_CAPACITY + 1
    /\ heap[map["map"]].count = 0
    /\ Cardinality(LiveBlocks) = 1

\* C12: map_get changes nothing: the heap (count, capacity, load_factor,
\* growth_factor and every slot of every block) and the handles are the same
\* after the call as before; on a NULL map or with a NULL key it returns not
\* found.
C12_GetFrame ==
    [][\A key \in PairKeyPtrs \cup {NULL} :
          ObsGet(key) =>
              /\ UNCHANGED <<heap, map>>
              /\ (map["map"] = NULL \/ key = NULL) => out'.ret = NotFound]_vars

\* map_get found the second key of the wrapped run of bucket 15 in slot 0.
C12_Witness ==
    /\ out.op = "map_get" /\ out.ret = 0
    /\ map["map"] # NULL
    /\ Occupied(heap[map["map"]]) = {15, 0}

\* C13: map_delete of a key that is not in the map (the map allocated or
\* absent) leaves every block and the handle as they were and hands nothing
\* to the cleanup callback; an absent handle stays absent.
C13_DeleteAbsentKey ==
    [][\A key \in PairKeyPtrs :
          (ObsDelete(key) /\ shadow["map"][KeyPool[key]].key = NULL) =>
              /\ UNCHANGED <<heap, map>>
              /\ out'.freed = <<>>]_vars

\* A delete that found nothing in a map holding one key of the same bucket,
\* from which nothing was ever removed.
C13_Witness ==
    /\ out.op = "map_delete" /\ out.freed = <<>>
    /\ map["map"] # NULL
    /\ heap[map["map"]].count = 1
    /\ Occupied(heap[map["map"]]) = {15}
    /\ \A i \in 0..(heap[map["map"]].capacity - 1) : ~Vacated(heap[map["map"]], i)

\* The elements callers can store.
Records == [key : KeyPtrs, value : Values]

\* How many slots of blk hold the element rec.
Mult(blk, rec) == Cardinality({i \in Occupied(blk) : blk.slots[i] = rec})

\* C14: map_delete of a present key keeps the handle, the capacity and both
\* factors, leaves the map allocated with one element less, makes map_get
\* find nothing for the key, and the elements left are, as a multiset, the
\* ones before without the deleted one.
C14_DeletePresentKey ==
    [][\A key \in KeyPtrs :
          (MapDelete("map", key) /\ shadow["map"][KeyPool[key]].key # NULL) =>
              LET before == heap[map["map"]]
                  after == heap'[map'["map"]]
                  deleted == shadow["map"][KeyPool[key]]
              IN  /\ map'["map"] = map["map"] /\ map'["map"] # NULL
                  /\ after.capacity = before.capacity
                  /\ after.load_factor = before.load_factor
                  /\ after.growth_factor = before.growth_factor
                  /\ after.count = before.count - 1
                  /\ map_get(heap', map'["map"], key) = NotFound
                  /\ \A rec \in Records :
                         Mult(after, rec) =
                             Mult(before, rec) - (IF rec = deleted THEN 1 ELSE 0)]_vars

\* The last element of a map was deleted: the map is allocated with its
\* first capacity, count 0 and no key, and slot 15 was vacated.
C14_Witness ==
    /\ map["map"] # NULL
    /\ heap[map["map"]].capacity = MAP_INIT_CAPACITY
    /\ heap[map["map"]].count = 0
    /\ Occupied(heap[map["map"]]) = {}
    /\ Vacated(heap[map["map"]], 15)

\* C15: from an absent handle, under the defaults 16 / 0.75 / 2.0, the
\* capacity is 16 after each of the first 11 puts of distinct keys and 32
\* after the 12th; count is the number of keys put and every key put is
\* found with its element.
C15_TwelfthPutGrows ==
    map["map"] # NULL =>
        LET blk == heap[map["map"]]
        IN  /\ blk.count = Cardinality(hist.put)
            /\ blk.count <= 11 => blk.capacity = 16
            /\ blk.count >= 12 => blk.capacity = 32
            /\ blk.load_factor = [num |-> 3, den |-> 4]
            /\ blk.growth_factor = [num |-> 2, den |-> 1]
            /\ \A key \in FillKeyPtrs :
                   Elem(heap, map["map"], key) =
                       IF KeyPool[key] \in hist.put
                       THEN [key |-> key, value |-> 1 + (key % 2)]
                       ELSE EmptySlot

\* Twelve keys were put: capacity 32, count 12, and the three keys of
\* bucket 31 are all found.
C15_Witness ==
    /\ map["map"] # NULL
    /\ heap[map["map"]].count = 12
    /\ heap[map["map"]].capacity = 32
    /\ Cardinality(hist.put) = 12
    /\ \A key \in {1, 2, 4} : Elem(heap, map["map"], key).key = key

Max(a, b) == IF a > b THEN a ELSE b

\* C17: map_set_min_capacity on an allocated map leaves the capacity at
\* max(old capacity, min_cap), keeps count and both factors, and every key
\* is found with the element it had; on a NULL handle it allocates a map of
\* max(MAP_INIT_CAPACITY, min_cap) zeroed slots with count 0 and the default
\* factors.
C17_MinCapacity ==
    [][\A min_cap \in MinCaps :
          MapSetMinCapacity("map", min_cap) =>
              IF map["map"] = NULL
              THEN /\ map'["map"] # NULL
                   /\ heap'[map'["map"]] =
                          NewBlock(Max(MAP_INIT_CAPACITY, min_cap), MAP_LOAD_FACTOR,
                                   MAP_GROWTH_FACTOR_DEFAULT)
                   /\ heap'[map'["map"]].count = 0
              ELSE LET before == heap[map["map"]]
                       after == heap'[map'["map"]]
                   IN  /\ after.capacity = Max(before.capacity, min_cap)
                       /\ after.count = before.count
                       /\ after.load_factor = before.load_factor
                       /\ after.growth_factor = before.growth_factor
                       /\ \A key \in KeyPtrs :
                              Elem(heap', map'["map"], key) = Elem(heap, map["map"], key)]_vars

\* A map of three keys was resized to 24 buckets, where the three keys no
\* longer collide; its load factor had been set before.
C17_Witness ==
    /\ map["map"] # NULL
    /\ heap[map["map"]].capacity = 24
    /\ heap[map["map"]].count = 3
    /\ heap[map["map"]].load_factor # MAP_LOAD_FACTOR
    /\ Occupied(heap[map["map"]]) = {7, 15, 23}

\* C18: map_set_load_factor and map_set_growth_factor on an allocated map
\* change that one header field of the map's block and nothing else (no
\* resize); the next map_put grows exactly when count + 1 reaches
\* (size_t)(capacity * load_factor) of the header, to the larger of
\* capacity + 1 and (size_t)(capacity * growth_factor) of the header.
C18_SettersOnlySetField ==
    [][/\ \A factor \in LoadFactors :
              (MapSetLoadFactor("map", factor) /\ map["map"] # NULL) =>
                  /\ map' = map
                  /\ heap' = [heap EXCEPT ![map["map"]].load_factor = factor]
       /\ \A factor \in GrowthFactors :
              (MapSetGrowthFactor("map", factor) /\ map["map"] # NULL) =>
                  /\ map' = map
                  /\ heap' = [heap EXCEPT ![map["map"]].growth_factor = factor]
       /\ \A key \in KeyPtrs, val \in Values :
              (MapPut("map", key, val) /\ map["map"] # NULL) =>
                  LET hdr == heap[map["map"]]
                  IN  map_capacity(heap', map'["map"]) =
                          IF hdr.count + 1 >= Scale(hdr.capacity, hdr.load_factor)
                          THEN Max(hdr.capacity + 1, Scale(hdr.capacity, hdr.growth_factor))
                          ELSE hdr.capacity]_vars

\* The load factor was set to 0.25 and a put on three keys then doubled the
\* capacity: with the default 0.75 three keys never grow a map.
C18_Witness ==
    /\ map["map"] # NULL
    /\ heap[map["map"]].load_factor = [num |-> 1, den |-> 4]
    /\ heap[map["map"]].growth_factor = MAP_GROWTH_FACTOR_DEFAULT
    /\ heap[map["map"]].capacity = 2 * MAP_INIT_CAPACITY
    /\ heap[map["map"]].count = 3

\* What the cleanup callback is due when a call supersedes or removes the
\* element of the string of key: that element once, or nothing when the map
\* has none.
Due(key) ==
    IF shadow["map"][KeyPool[key]].key # NULL
    THEN <<shadow["map"][KeyPool[key]]>>
    ELSE <<>>

\* C19: map_put_free hands the callback the old element once when the key is
\* present and nothing when it is new; map_delete_free hands it the removed
\* element once when the key is found and nothing when it is not; no other
\* call, and no relocation by the repair walk or by a resize, invokes it.
C19_CleanupOnce ==
    [][/\ \A key \in PairKeyPtrs, val \in Values :
              ObsPut(key, val) => out'.freed = Due(key)
       /\ \A key \in PairKeyPtrs : ObsDelete(key) => out'.freed = Due(key)
       /\ out'.op \notin {"map_put", "map_delete"} => out'.freed = <<>>]_vars

\* "Z" was deleted from slot 15 and the repair walk moved "z" from slot 0
\* to slot 15: the callback got the element of "Z" and nothing else.
C19_Witness ==
    /\ out.op = "map_delete"
    /\ Len(out.freed) = 1 /\ out.freed[1].key = 1
    /\ map["map"] # NULL
    /\ Occupied(heap[map["map"]]) = {15}
    /\ heap[map["map"]].slots[15].key = 2
    /\ Vacated(heap[map["map"]], 0)

\* C20: map_dup of an allocated map returns a block that was not allocated
\* before, with the count, capacity, load_factor and growth_factor of the
\* original and the same element in every slot, so that map_get answers
\* alike on both; map_dup of a NULL map returns NULL; when the allocation
\* fails it returns NULL; in every case the original is as it was.
C20_DupCopies ==
    [][(ObsDup \/ ObsDupNoMem) =>
          LET src == map["map"]
              d == map'["dup_map"]
          IN  /\ out'.ret = d
              /\ map'["map"] = src
              /\ src # NULL => heap'[src] = heap[src]
              /\ src = NULL => d = NULL
              /\ ObsDupNoMem => d = NULL
              /\ IF d = NULL THEN heap' = heap
                 ELSE /\ d # src /\ heap[d] = Freed
                      /\ heap'[d].count = heap[src].count
                      /\ heap'[d].capacity = heap[src].capacity
                      /\ heap'[d].load_factor = heap[src].load_factor
                      /\ heap'[d].growth_factor = heap[src].growth_factor
                      /\ \A i \in 0..(heap[src].capacity - 1) :
                             heap'[d].slots[i] = heap[src].slots[i]
                      /\ \A key \in PairKeyPtrs \cup {NULL} :
                             map_get(heap', d, key) = map_get(heap', src, key)]_vars

\* map_dup returned a copy of a resized map of two colliding keys whose
\* factors had both been set: the two blocks are equal.
C20_Witness ==
    /\ out.op = "map_dup" /\ out.ret # NULL
    /\ map["dup_map"] = out.ret /\ map["map"] # out.ret
    /\ heap[map["dup_map"]] = heap[map["map"]]
    /\ heap[map["dup_map"]].capacity = 24
    /\ heap[map["dup_map"]].count = 2
    /\ heap[map["dup_map"]].load_factor # MAP_LOAD_FACTOR
    /\ heap[map["dup_map"]].growth_factor # MAP_GROWTH_FACTOR_DEFAULT

\* C21: a map_put whose record has a NULL key is rejected before any
\* mutation: the handle and the whole heap (count, capacity and every slot
\* of the map, and which blocks are allocated) are after the call as they
\* were before it.
C21_NullKeyRejected ==
    [][\A val \in Values : ObsPutNullKey(val) => heap' = heap /\ map' = map]_vars

\* C22: when the allocation of a resize fails, in a growing map_put or in
\* map_set_min_capacity, the call returns with the caller's handle still
\* referring to the prior block, which is still allocated and holds the
\* count, capacity and elements it held before the call.
C22_ResizeNoMemKeepsMap ==
    [][(ObsPutNoMem \/ \E min_cap \in MinCaps : ObsSetMinCapacityNoMem(min_cap)) =>
          /\ out'.ret \notin {Fault, Undefined}
          /\ map' = map
          /\ heap' = heap]_vars

\* The live elements of the array are the items pushed and not removed
\* since, in push order.
ArrayHolds(hp, arr, seq) ==
    /\ array_count(hp, arr) = Len(seq)
    /\ \A i \in 0..(Len(seq) - 1) : hp[arr].items[i] = seq[i + 1]

\* C23: after every call, elements 0..count-1 are the surviving pushed
\* items in push order; array_pop returns the most recently pushed
\* remaining item and decrements count by one; on an empty or absent array
\* it returns the zero element and count stays 0.
C23_ArrayOrderAndPop ==
    [][/\ ArrayHolds(heap', map'["points"], shadow'["points"])
       /\ ArrayPop =>
              LET seq == shadow["points"]
                  count == array_count(heap, map["points"])
              IN  IF count > 0
                  THEN /\ out'.ret = seq[Len(seq)]
                       /\ array_count(heap', map'["points"]) = count - 1
                  ELSE /\ out'.ret = 0
                       /\ array_count(heap', map'["points"]) = 0]_vars

\* array_pop returned the 2 pushed last onto an array grown from capacity 0
\* to 4, leaving the two items pushed before it.
C23_Witness ==
    /\ out.op = "array_pop" /\ out.ret = 2
    /\ map["points"] # NULL
    /\ heap[map["points"]].capacity = 4
    /\ heap[map["points"]].count = 2
    /\ shadow["points"] = <<1, 1>>
    /\ heap[map["points"]].items[2] = 2

\* C24: array_delete(arr, i) with i < count removes element i, moves
\* elements i+1..count-1 down by one in order, leaves elements 0..i-1, the
\* capacity and the handle as they were and decrements count by one; with
\* i >= count or an absent array it changes nothing.
C24_ArrayDelete ==
    [][\A index \in Indexes : ArrayDelete(index) =>
          LET a == map["points"]
          IN  IF a # NULL /\ index < heap[a].count
              THEN /\ map' = map
                   /\ heap'[a].count = heap[a].count - 1
                   /\ heap'[a].capacity = heap[a].capacity
                   /\ heap'[a].growth_factor = heap[a].growth_factor
                   /\ \A j \in 0..(index - 1) : heap'[a].items[j] = heap[a].items[j]
                   /\ \A j \in index..(heap[a].count - 2) :
                          heap'[a].items[j] = heap[a].items[j + 1]
              ELSE heap' = heap /\ map' = map]_vars

\* array_delete(points, 1) removed the middle one of three items.
C24_Witness ==
    /\ out.op = "array_delete" /\ out.arg = 1
    /\ map["points"] # NULL
    /\ heap[map["points"]].count = 2
    /\ shadow["points"] = <<1, 2>>
    /\ heap[map["points"]].items[0] = 1
    /\ heap[map["points"]].items[1] = 2

\* C25: count <= capacity after every call; array_push on a full array
\* (capacity 0 included) grows the capacity to
\* max(capacity + 1, floor(capacity * growth_factor)) with elements
\* 0..count-1 unchanged and stores the item at index count.
C25_ArrayCountWithinCapacity ==
    [][/\ array_count(heap', map'["points"]) <= array_capacity(heap', map'["points"])
       /\ \A item \in Values :
              (/\ ArrayPush(item)
               /\ map["points"] # NULL
               /\ array_count(heap, map["points"]) = array_capacity(heap, map["points"]))
              => LET old == heap[map["points"]]
                     new == heap'[map'["points"]]
                 IN  /\ new.capacity = Max(old.capacity + 1,
                                           Scale(old.capacity, old.growth_factor))
                     /\ new.count = old.count + 1
                     /\ \A i \in 0..(old.count - 1) : new.items[i] = old.items[i]
                     /\ new.items[old.count] = item]_vars

\* array_set_min_capacity(points, 0) made an array of capacity 0 and the
\* first push grew it to capacity 1.
C25_Witness ==
    /\ out.op = "array_push"
    /\ map["points"] # NULL
    /\ heap[map["points"]].capacity = 1
    /\ heap[map["points"]].count = 1
    /\ heap[map["points"]].items[0] = 2

\* A put on the allocated map `map' resized it: MAP_RESIZE allocates the new
\* block while the old one is live, so the handle changes.
Resized == map["map"] # NULL /\ map'["map"] # map["map"]

\* The item is where the probe of map_put_free ends when it starts from the
\* bucket of the key in the block's own capacity.
PlacedFromBucket(blk, item) ==
    LET h == PutProbe(blk.slots, blk.capacity, item.key, Bucket(item.key, blk.capacity), 0)
    IN  h # Diverge /\ blk.slots[h] = item

\* C26 as stated: a map_put on an allocated map with count c, capacity n and
\* load factor f grows the map if and only if (c + 1) >= n * f, the product
\* taken as a real number.
C26_GrowsAtRealThreshold ==
    [][\A key \in KeyPtrs, val \in Values :
          (MapPut("map", key, val) /\ map["map"] # NULL) =>
              LET hdr == heap[map["map"]]
              IN  Resized <=> (hdr.count + 1) * hdr.load_factor.den
                                 >= hdr.capacity * hdr.load_factor.num]_vars

\* C26, amended: a map_put on an allocated map with count c, capacity n and
\* load factor f grows the map before placing the record if and only if
\* (c + 1) >= floor(n * f), and the record is then placed by probing from
\* its bucket in the new capacity.
C26_GrowsAtFloorThreshold ==
    [][\A key \in KeyPtrs, val \in Values :
          (MapPut("map", key, val) /\ map["map"] # NULL) =>
              LET hdr == heap[map["map"]]
                  new == heap'[map'["map"]]
              IN  /\ Resized <=> (hdr.count + 1) >= Scale(hdr.capacity, hdr.load_factor)
                  /\ Resized => new.capacity > hdr.capacity
                  /\ ~Resized => new.capacity = hdr.capacity
                  /\ PlacedFromBucket(new, [key |-> key, value |-> val])]_vars

\* A map of capacity 17 and load factor 0.25 holding three keys was grown
\* to 18 by a put: count + 1 = 4 had reached floor(4.25) but not 4.25.
C26_Witness ==
    /\ map["map"] # NULL
    /\ heap[map["map"]].capacity = 18
    /\ heap[map["map"]].count = 3
    /\ heap[map["map"]].load_factor = [num |-> 1, den |-> 4]

\* C27: when a map_put grows the map, the new capacity is exactly
\* max(capacity + 1, floor(capacity * growth_factor)), larger than the old
\* one also for a growth factor of 1.0 or less, and the put resizes once:
\* one block is allocated and the old one is freed.
C27_GrowthCapacity ==
    [][\A key \in KeyPtrs :
          (ObsPut(key, 1) /\ Resized) =>
              LET hdr == heap[map["map"]]
                  new == heap'[map'["map"]]
              IN  /\ new.capacity = Max(hdr.capacity + 1,
                                        Scale(hdr.capacity, hdr.growth_factor))
                  /\ new.capacity > hdr.capacity
                  /\ LiveBlocks' = (LiveBlocks \ {map["map"]}) \cup {map'["map"]}]_vars

\* The last call was a put that moved the map to a new block of capacity
\* 18 under growth factor 0.5: floor(17 * 0.5) = 8 is not above 17.
C27_Witness ==
    /\ out.op = "map_put"
    /\ out.tbl # NULL /\ out.tbl # map["map"]
    /\ heap[map["map"]].capacity = 18
    /\ heap[map["map"]].growth_factor = [num |-> 1, den |-> 2]

\* The records a block stores.
Stored(blk) == {blk.slots[i] : i \in Occupied(blk)}

\* The slot of block blk that holds the record rec.
SlotOf(blk, rec) == CHOOSE i \in Occupied(blk) : blk.slots[i] = rec

\* C28: a resize to new_capacity yields a map of exactly that capacity,
\* with the load_factor, growth_factor and count of the old map and exactly
\* its records; each record sits at the first slot, probing forward from
\* hash(key) mod new_capacity, that was empty when its turn came: the slots
\* before it on that path hold records of lower old slots.
C28_ResizeReinserts ==
    [][\A min_cap \in CollidingCaps :
          (/\ ObsSetMinCapacity(min_cap)
           /\ map["map"] # NULL
           /\ heap[map["map"]].capacity < min_cap) =>
              LET old == heap[map["map"]]
                  new == heap'[map'["map"]]
              IN  /\ new.capacity = min_cap
                  /\ new.load_factor = old.load_factor
                  /\ new.growth_factor = old.growth_factor
                  /\ new.count = old.count
                  /\ Stored(new) = Stored(old)
                  /\ Cardinality(Occupied(new)) = old.count
                  /\ \A p \in Occupied(new) :
                         \A q \in Run(Bucket(new.slots[p].key, min_cap), p, min_cap) \ {p} :
                             /\ new.slots[q].key # NULL
                             /\ SlotOf(old, new.slots[q]) < SlotOf(old, new.slots[p])]_vars

\* map_set_min_capacity moved a map of two colliding keys, whose factors
\* had both been set, to a block of 32 slots: the keys sit in slots 31 and 0.
C28_Witness ==
    /\ out.op = "map_set_min_capacity"
    /\ out.tbl # NULL /\ out.tbl # map["map"]
    /\ heap[map["map"]].capacity = 32
    /\ Occupied(heap[map["map"]]) = {31, 0}
    /\ heap[map["map"]].load_factor # MAP_LOAD_FACTOR
    /\ heap[map["map"]].growth_factor # MAP_GROWTH_FACTOR_DEFAULT

\* Classic backward-shift deletion, the reference map_delete is compared
\* with.  Between(a, i, b): i lies cyclically in (a, b].
Between(a, i, b) == IF a <= b THEN a < i /\ i <= b ELSE a < i \/ i <= b

\* The scan of the run after the hole: the record at j stays when its
\* natural bucket lies cyclically between the hole and j, else it moves into
\* the hole and j becomes the hole; the scan ends at the first empty slot.
\* A slot is emptied by clearing its key.
RECURSIVE ShiftBack(_, _, _, _, _)
ShiftBack(slots, cap, hole, j, n) ==
    IF n = cap \/ slots[j].key = NULL THEN slots
    ELSE IF Between(hole, Bucket(slots[j].key, cap), j)
         THEN ShiftBack(slots, cap, hole, (j + 1) % cap, n + 1)
         ELSE ShiftBack([slots EXCEPT ![hole] = slots[j], ![j].key = NULL],
                        cap, j, (j + 1) % cap, n + 1)

BackwardShiftDelete(blk, idx) ==
    [blk EXCEPT !.count = @ - 1,
                !.slots = ShiftBack([blk.slots EXCEPT ![idx].key = NULL], blk.capacity,
                                    idx, (idx + 1) % blk.capacity, 1)]

\* The slot of block blk that holds a key equal to key.
SlotOfKey(blk, key) ==
    CHOOSE i \in Occupied(blk) : StrEq(blk.slots[i].key, key)

\* C29: map_delete of a present key leaves exactly the block that classic
\* backward-shift deletion leaves: the key's slot emptied and each later
\* record of the run moved back into the hole unless its natural bucket lies
\* cyclically between the hole and its position.
C29_DeleteIsBackwardShift ==
    [][\A key \in ShiftKeyPtrs :
          (ObsDelete(key) /\ shadow["map"][KeyPool[key]].key # NULL) =>
              /\ map'["map"] = map["map"]
              /\ heap'[map["map"]] =
                     BackwardShiftDelete(heap[map["map"]],
                                         SlotOfKey(heap[map["map"]], key))]_vars

\* C29 witness: "Z" was deleted from slot 15 of a 16-slot map whose run was
\* "Z", ";" (in its own bucket 0), "z", ":"; ";" stayed, "z" moved back over
\* it into slot 15 and ":" moved back into slot 1.
C29_Witness ==
    /\ out.op = "map_delete"
    /\ map["map"] # NULL
    /\ heap[map["map"]].capacity = MAP_INIT_CAPACITY
    /\ shadow["map"][KeyPool[1]].key = NULL
    /\ Occupied(heap[map["map"]]) = {15, 0, 1}
    /\ heap[map["map"]].slots[15].key = 2
    /\ heap[map["map"]].slots[0].key = 15
    /\ heap[map["map"]].slots[1].key = 4
    /\ heap[map["map"]].slots[2].key = NULL
    /\ heap[map["map"]].slots[2].value # 0

\* The header of block new is the one MAP_RESIZE builds for capacity cap from
\* the header of block old.
HeaderComplete(new, old, cap) ==
    /\ new.magic_number = MAP_MAGIC_NUMBER
    /\ new.capacity = cap
    /\ new.load_factor = old.load_factor
    /\ new.growth_factor = old.growth_factor
    /\ new.count = old.count

\* The statements of a resize, taken one after the other, do to the heap and
\* to the handle what map_set_min_capacity does as one operation.
StepsMatchResize ==
    [][(InResize /\ ~InResize') =>
          LET r == map_set_min_capacity(out.at_call, out._ms_old_ptr, out._ms_new_cap)
          IN  heap' = r.heap /\ map'["map"] = r.tbl]_vars

\* C30: in a resize, the statement that frees the old block finds the new
\* block's header complete and every record of the old block copied into
\* the new block; no statement executed after it reads the old block; and
\* when the operation returns the caller's handle is the new block.
C30_FreeAfterCopy ==
    [][InResize =>
          LET old == out._ms_old_ptr
              new == out._ms_new_hdr
          IN  /\ (heap[old] # Freed /\ heap'[old] = Freed) =>
                     /\ new # NULL
                     /\ heap'[new] = heap[new]
                     /\ HeaderComplete(heap[new], heap[old], out._ms_new_cap)
                     /\ Stored(heap[new]) = Stored(heap[old])
                     /\ Cardinality(Occupied(heap[new])) = heap[old].count
              /\ InResize' => \A b \in out'.reads : heap[b] # Freed
              /\ (heap[old] = Freed /\ InResize') => old \notin out'.reads
              /\ ~InResize' =>
                     /\ heap'[old] = Freed
                     /\ map'["map"] = new
                     /\ heap'[new] # Freed]_vars

\* C30 witness: inside a resize from 16 to 32 slots the old block has just
\* been freed (line 167 was executed, line 169 is next); the new block holds
\* the three records of the old one, in slots 31, 0 and 1, and the caller's
\* handle is still the old block.
C30_Witness ==
    /\ InResize
    /\ out.pc = 169
    /\ heap[out._ms_old_ptr] = Freed
    /\ map["map"] = out._ms_old_ptr
    /\ out.at_call[out._ms_old_ptr].count = 3
    /\ Occupied(heap[out._ms_new_hdr]) = {31, 0, 1}
    /\ Stored(heap[out._ms_new_hdr]) = Stored(out.at_call[out._ms_old_ptr])

\* C31 as stated: every map_put and every map_delete returns.
C31_PutAndDeleteReturn ==
    ~(out.op \in {"map_put", "map_delete"} /\ out.ret = Diverge)

\* A state C31 does not survive: all 16 slots are taken and a call is stuck.
FullTable ==
    /\ map["map"] # NULL
    /\ heap[map["map"]].count = heap[map["map"]].capacity
    /\ Cardinality(Occupied(heap[map["map"]])) = heap[map["map"]].capacity

\* A double strictly between 0 and 1.
InUnit(f) == 0 < f.num /\ f.num < f.den

\* C32: while every load factor stored in the map is strictly between 0 and
\* 1 (the default 0.75 and whatever map_set_load_factor stored), count is
\* below capacity after every operation and count slots are occupied, so a
\* probe that starts, in map_put, map_get, map_delete or a resize, has an
\* empty slot to stop at.
C32_FreeSlot ==
    (InUnit(MAP_LOAD_FACTOR) /\ \A f \in hist.stored : InUnit(f)) =>
        (map["map"] # NULL =>
            LET hdr == heap[map["map"]]
            IN  /\ hdr.count < hdr.capacity
                /\ Cardinality(Occupied(hdr)) = hdr.count
                /\ \E i \in 0..(hdr.capacity - 1) : hdr.slots[i].key = NULL)

\* C32 witness: with load factor 0.99 a map of 16 slots has taken 14 records
\* (the next put finds 15 >= floor(15.84) and grows first).
C32_Witness ==
    /\ map["map"] # NULL
    /\ hist.stored = {[num |-> 99, den |-> 100]}
    /\ heap[map["map"]].load_factor = [num |-> 99, den |-> 100]
    /\ heap[map["map"]].capacity = MAP_INIT_CAPACITY
    /\ heap[map["map"]].count = MAP_INIT_CAPACITY - 2
    /\ out.op = "map_put"

\* C33: a map_get of a key that is not in the map returns not found after
\* reading at most capacity slots, also when no slot of the table is empty;
\* a map_get of a key that is in the map returns its slot.
C33_GetReturnsOnFullTable ==
    (out.op = "map_get" /\ map["map"] # NULL) =>
        LET hdr == heap[map["map"]]
            start == Bucket(out.arg, hdr.capacity)
        IN  /\ GetProbes(hdr.slots, hdr.capacity, out.arg, start, start, 0) <= hdr.capacity
            /\ shadow["map"][KeyPool[out.arg]].key = NULL => out.ret = NotFound
            /\ shadow["map"][KeyPool[out.arg]].key # NULL =>
                   /\ out.ret \in 0..(hdr.capacity - 1)
                   /\ StrEq(hdr.slots[out.ret].key, out.arg)

\* C33 witness: all 16 slots are occupied, "l" is not in the map, and
\* map_get(map, "l") returned not found after reading all 16 slots.
C33_Witness ==
    /\ FullTable
    /\ out.op = "map_get"
    /\ out.arg = 18
    /\ out.ret = NotFound
    /\ shadow["map"][KeyPool[18]].key = NULL
    /\ LET hdr == heap[map["map"]]
           start == Bucket(18, hdr.capacity)
       IN  GetProbes(hdr.slots, hdr.capacity, 18, start, start, 0) = hdr.capacity

\* C34 as stated: in every allocated map the stored load_factor is strictly
\* between 0 and 1 and the stored growth_factor is greater than 1.
C34_FactorsInRange ==
    map["map"] # NULL =>
        /\ InUnit(heap[map["map"]].load_factor)
        /\ heap[map["map"]].growth_factor.num > heap[map["map"]].growth_factor.den

\* C35: map_delete with a NULL key on an allocated map returns, hands
\* nothing to the cleanup callback and leaves the handle and the heap
\* (count, capacity and every slot) as they were.
C35_DeleteNullKeyIsNotFound ==
    [][ObsDeleteNullKey =>
          /\ out'.ret \notin {Fault, Undefined}
          /\ out'.freed = <<>>
          /\ heap' = heap
          /\ map' = map]_vars

\* C36: a map_put of a key that is already in the map applies the growth
\* check like any put: it resizes exactly when count + 1 >=
\* floor(capacity * load_factor), to a larger capacity; count stays as it
\* was and the records are the old ones with the key's record replaced.
C36_OverwriteGrows ==
    [][\A key \in KeyPtrs :
          (ObsPut(key, 1) /\ shadow["map"][KeyPool[key]].key # NULL) =>
              LET hdr == heap[map["map"]]
                  new == heap'[map'["map"]]
              IN  /\ Resized <=> (hdr.count + 1) >= Scale(hdr.capacity, hdr.load_factor)
                  /\ Resized => new.capacity > hdr.capacity /\ heap'[map["map"]] = Freed
                  /\ ~Resized => new.capacity = hdr.capacity
                  /\ new.count = hdr.count
                  /\ Stored(new) = {r \in Stored(hdr) : ~StrEq(r.key, key)}
                                      \cup {[key |-> key, value |-> 1]}]_vars

\* C36 witness: a put of a key that was in the map (the old record is the
\* one the put replaced) moved the three records of a 16-slot map with load
\* factor 0.25 to a new block of 32 slots; count is still 3.
C36_Witness ==
    /\ out.op = "map_put"
    /\ out.freed # <<>>
    /\ out.tbl # NULL
    /\ map["map"] # out.tbl
    /\ heap[out.tbl] = Freed
    /\ heap[map["map"]].capacity = 2 * MAP_INIT_CAPACITY
    /\ heap[map["map"]].count = 3

\* C37: after every map_put, map_delete, map_set_min_capacity and map_free
\* on the handle `map', the blocks that are live are exactly the handle's
\* block when the handle is not NULL and none when it is; a call frees no
\* block but the one the handle referred to, which was live (so no block is
\* freed twice), and when it replaces the handle's block it frees the old
\* one; the handle never refers to a freed block.
C37_OneLiveBlock ==
    [][/\ LiveBlocks' = IF map'["map"] = NULL THEN {} ELSE {map'["map"]}
       /\ \A b \in Blocks :
              (heap[b] # Freed /\ heap'[b] = Freed) => b = map["map"] /\ map'["map"] # b
       /\ (map["map"] # NULL /\ map'["map"] # map["map"]) =>
              /\ heap[map["map"]] # Freed
              /\ heap'[map["map"]] = Freed]_vars

\* C37 witness: a map_put replaced the block of a map holding two records
\* and added a third; the block the handle referred to before is freed and
\* the new one is the only live block.
C37_Witness ==
    /\ out.op = "map_put"
    /\ out.tbl # NULL
    /\ map["map"] # NULL
    /\ map["map"] # out.tbl
    /\ heap[out.tbl] = Freed
    /\ LiveBlocks = {map["map"]}
    /\ heap[map["map"]].count = 3

\* C38: map_set_load_factor and map_set_growth_factor on an absent handle
\* change nothing: the handle stays NULL, no block is allocated, and
\* map_load_factor and map_growth_factor still report 0.75 and 2.0; the map
\* that the next map_put or map_set_min_capacity creates has these defaults
\* and not the factor that was passed.
C38_SettersOnAbsentMap ==
    [][/\ ((ResizeSetLoadFactor \/ ResizeSetGrowthFactor) /\ map["map"] = NULL) =>
              /\ map' = map
              /\ heap' = heap
              /\ LiveBlocks' = {}
              /\ map_load_factor(heap', map'["map"]) = MAP_LOAD_FACTOR
              /\ map_growth_factor(heap', map'["map"]) = MAP_GROWTH_FACTOR_DEFAULT
       /\ (/\ out.op \in {"map_set_load_factor", "map_set_growth_factor"}
           /\ map["map"] = NULL
           /\ ResizePut \/ ResizeSetMinCapacity) =>
              /\ map'["map"] # NULL
              /\ map_load_factor(heap', map'["map"]) = MAP_LOAD_FACTOR
              /\ map_growth_factor(heap', map'["map"]) = MAP_GROWTH_FACTOR_DEFAULT
              /\ MAP_LOAD_FACTOR \notin LoadFactors
              /\ MAP_GROWTH_FACTOR_DEFAULT \notin GrowthFactors]_vars

\* C38 witness: map_set_load_factor(map, 0.25) was just called on the absent
\* handle: the handle is still NULL, no block is live and map_load_factor
\* reports 0.75.
C38_Witness ==
    /\ out.op = "map_set_load_factor"
    /\ out.tbl = NULL
    /\ map["map"] = NULL
    /\ LiveBlocks = {}
    /\ map_load_factor(heap, map["map"]) = MAP_LOAD_FACTOR
    /\ map_load_factor(heap, map["map"]) \notin LoadFactors

\* C39: every block a handle refers to, whether map_put, map_set_min_capacity,
\* a resize or map_dup created it, is live and has magic_number =
\* MAP_MAGIC_NUMBER, and so has every live block: the assertion of
\* MAP_HEADER holds for every handle the caller has and has not released.
C39_MagicNumberValid ==
    /\ \A h \in Handles :
           map[h] # NULL =>
               /\ map[h] \in LiveBlocks
               /\ heap[map[h]].magic_number = MAP_MAGIC_NUMBER
    /\ \A b \in LiveBlocks : heap[b].magic_number = MAP_MAGIC_NUMBER

\* C39 witness: map_dup returned a copy of a map that had been resized to
\* more than 16 slots; both handles refer to different live blocks.
C39_Witness ==
    /\ out.op = "map_dup"
    /\ map["map"] # NULL
    /\ map["dup_map"] # NULL
    /\ map["dup_map"] # map["map"]
    /\ out.ret = map["dup_map"]
    /\ heap[map["map"]].capacity > MAP_INIT_CAPACITY
    /\ heap[map["dup_map"]].magic_number = MAP_MAGIC_NUMBER
    /\ heap[map["dup_map"]].count > 0

\* C40: array_dup_min_capacity(points, min_cap) on an allocated array
\* returns a new block with the same count and the same elements
\* 0..count-1 whose capacity is at least min_cap.
C40_DupHasMinCapacity ==
    [][\A min_cap \in DupMinCaps :
          (ArrayDupMinCapacity(min_cap) /\ map["points"] # NULL) =>
              LET orig == heap[map["points"]]
                  dup == heap'[map'["copy"]]
              IN  /\ map'["copy"] \notin {NULL, map["points"]}
                  /\ dup.count = orig.count
                  /\ \A i \in 0..(orig.count - 1) : dup.items[i] = orig.items[i]
                  /\ dup.capacity >= min_cap]_vars

\* What array_dup_min_capacity does hold to: the copy has the count, the
\* elements, the growth factor and the capacity of the original.
DupHasSameCapacity ==
    [][\A min_cap \in DupMinCaps :
          (ArrayDupMinCapacity(min_cap) /\ map["points"] # NULL) =>
              LET orig == heap[map["points"]]
                  dup == heap'[map'["copy"]]
              IN  /\ map'["copy"] \notin {NULL, map["points"]}
                  /\ dup.count = orig.count
                  /\ \A i \in 0..(orig.count - 1) : dup.items[i] = orig.items[i]
                  /\ dup.capacity = orig.capacity
                  /\ dup.growth_factor = orig.growth_factor]_vars
====
